---- MODULE Spec2Model ----
(***************************************************************************)
(* State-machine model of the secrets clients of the provisioning toolkit: *)
(*   core/integration/consul_integration.py  (ConsulManager)               *)
(*   core/integration/vault_integration.py   (VaultManager)                *)
(*   core/operation/template_handler.py      (TemplateGenerator)           *)
(* Every HTTP request a method issues is one atomic step of the invocation *)
(* that issues it; an invocation is a process with a program counter.      *)
(***************************************************************************)
EXTENDS Integers, Sequences, FiniteSets, TLC

\* ------------------------------------------------------------- bounds
\* Number of method invocations in one run of a sequential specification.
MaxCalls == 3
\* Number of method invocations in one run of a race specification.
MaxRaceCalls == 2
\* Number of requests of one run that the backends answer with an error.
MaxFaults == 1
\* Number of invocations in one run of the two generate_*_secret methods.
MaxIdentityCalls == 4
\* Number of template renderings in one run of the rendering specification.
MaxRenders == 2
\* Number of times the program is started.
MaxRuns == 2
\* Number of invocations of the two project methods in one run of their
\* specification.
MaxProjectCalls == 2
\* Number of invocations of GitlabAuth.connect in one run of its
\* specification.
MaxAuthCalls == 2
\* Number of invocations of create_global_variable in one run of its
\* specification.
MaxGlobalCalls == 2
\* Number of invocations of the push methods in one run of their
\* specification.
MaxPushCalls == 2

\* Invocations (client processes).  The sequential specifications use only
\* process 1; the race specifications run both.
ProcIds == {1, 2}

\* Input domains.
Names == {"payments", "billing"}
RuleBodies == {"r1", "r2"}
Namespaces == {"payments-ns"}
Environments == {"dev", "prod"}
VaultPolicyNames == {"payments_dev_policy", "payments_prod_policy"}
VaultRoleNames == {"payments_dev_role", "payments_prod_role"}
MountPoints == {"devops_kv"}
SecretPaths == {"dev/kubernetes/namespace", "prod/kubernetes/namespace"}
SecretKeys == {"payments_ns", "billing_ns"}
SecretValues == {"blob1", "blob2"}

\* Optional values: None is the empty sequence, Some(x) the singleton.
None == <<>>
Some(x) == <<x>>

Min(S) == CHOOSE m \in S : \A n \in S : m <= n

\* Dictionaries with string keys.
EmptyMap == [k \in {} |-> k]
Put(m, k, v) == (k :> v) @@ m

VARIABLES
    consulPolicies,   \* ACL policies stored by Backend-B, in creation order
    consulTokens,     \* ACL tokens stored by Backend-B, in creation order
    vaultPolicies,    \* Backend-A policies: policy name -> rule document
    vaultRoles,       \* Backend-A AppRoles: role name -> role
    vaultSecretIds,   \* Backend-A secret ids issued, in creation order
    vaultTokens,      \* Backend-A client tokens issued by logins
    vaultKV,          \* Backend-A KV v1 store: mount/path -> (key -> value)
    gitlab,           \* the source-control server: groups, projects, branches, members
    GitlabEnvConf,    \* the module-level configuration, read from the environment
    process,          \* the run of the program: its number and whether it has exited
    git,              \* the local clones of the repositories and their remotes
    faults,           \* requests answered with an error so far
    pc,               \* pc[p]: position of invocation p
    call,             \* call[p]: the method invoked and its arguments
    loc,              \* loc[p]: the local variables of the invocation
    sent,             \* sent[p]: the requests the invocation has issued so far
    pre,              \* pre[p]: the backends as they were when p was invoked
    hist              \* the completed invocations, in completion order

consulVars == <<consulPolicies, consulTokens>>
vaultVars == <<vaultPolicies, vaultRoles, vaultSecretIds, vaultTokens, vaultKV>>
gitlabVars == <<gitlab, GitlabEnvConf, process, git>>
procVars == <<pc, call, loc, sent, pre, hist>>
vars == <<consulPolicies, consulTokens, vaultPolicies, vaultRoles, vaultSecretIds,
          vaultTokens, vaultKV, gitlab, GitlabEnvConf, process, git, faults,
          pc, call, loc, sent, pre, hist>>

\* The state of the backends, as recorded in pre and in hist.
Backend ==
    [cp |-> consulPolicies, ct |-> consulTokens, vp |-> vaultPolicies,
     vr |-> vaultRoles, vs |-> vaultSecretIds, vt |-> vaultTokens, kv |-> vaultKV,
     gl |-> gitlab, git |-> git]

\* ------------------------------------------------- template_handler.py
\* base64.b64encode over byte sequences; the result is the ASCII bytes of
\* the encoded text, so that it can be encoded again.
B64Char(i) ==
    IF i < 26 THEN 65 + i
    ELSE IF i < 52 THEN 97 + (i - 26)
    ELSE IF i < 62 THEN 48 + (i - 52)
    ELSE IF i = 62 THEN 43 ELSE 47

RECURSIVE b64encode(_)
b64encode(bytes) ==
    IF Len(bytes) = 0 THEN <<>>
    ELSE IF Len(bytes) = 1 THEN
        <<B64Char(bytes[1] \div 4), B64Char((bytes[1] % 4) * 16), 61, 61>>
    ELSE IF Len(bytes) = 2 THEN
        <<B64Char(bytes[1] \div 4),
          B64Char((bytes[1] % 4) * 16 + bytes[2] \div 16),
          B64Char((bytes[2] % 16) * 4), 61>>
    ELSE
        <<B64Char(bytes[1] \div 4),
          B64Char((bytes[1] % 4) * 16 + bytes[2] \div 16),
          B64Char((bytes[2] % 16) * 4 + bytes[3] \div 64),
          B64Char(bytes[3] % 64)>> \o b64encode(SubSeq(bytes, 4, Len(bytes)))

\* yaml.dump of a mapping: the leaves of the document, each with the path
\* of keys that leads to it, the keys of every mapping in sorted order
\* (sort_keys defaults to True).  The documents below list their leaves in
\* that order.
Leaf(path, value) == [path |-> path, value |-> value]

generate_consul_k8s_secret(group_name, namespace, secret_id) ==
    LET secret_id_encoded == b64encode(secret_id)
    IN  << Leaf(<<"apiVersion">>, "v1"),
           Leaf(<<"data", "CONSUL_TOKEN">>, secret_id_encoded),
           Leaf(<<"kind">>, "Secret"),
           Leaf(<<"metadata", "name">>, "consul-" \o group_name),
           Leaf(<<"metadata", "namespace">>, namespace),
           Leaf(<<"type">>, "Opaque") >>

generate_vault_k8s_secret(group_name, namespace, role_id, secret_id) ==
    LET encoded_role_id == b64encode(role_id)
        encoded_secret_id == b64encode(secret_id)
    IN  << Leaf(<<"apiVersion">>, "v1"),
           Leaf(<<"data", "VAULT_ROLE_ID">>, encoded_role_id),
           Leaf(<<"data", "VAULT_SECRET_ID">>, encoded_secret_id),
           Leaf(<<"kind">>, "Secret"),
           Leaf(<<"metadata", "name">>, "vault-" \o group_name),
           Leaf(<<"metadata", "namespace">>, namespace),
           Leaf(<<"type">>, "Opaque") >>

\* json.dumps(policy, indent=4) of the two-path policy document.
generate_vault_policy_json(group_name, environment_name) ==
    "{\n    \"path\": {\n        \"secret/*\": {\n            \"capabilities\": [\n"
    \o "                \"list\"\n            ]\n        },\n"
    \o "        \"secret/" \o group_name \o "/+/" \o environment_name \o "\": {\n"
    \o "            \"capabilities\": [\n                \"read\",\n"
    \o "                \"list\",\n                \"update\",\n"
    \o "                \"create\",\n                \"delete\"\n"
    \o "            ]\n        }\n    }\n}"

\* f"{value}" of an Optional[str]: the text, or "None" for a value not set.
Format(v) == IF v = None THEN "None" ELSE v[1]

\* Faulty variant of generate_argocd_app_project_yaml: the subgroup name is
\* taken from the configuration, not from the parameter.
generate_argocd_app_project_yaml_fromConf(cd_subgroup_name, cd_helm_namespace) ==
    LET name == Format(GitlabEnvConf.CI_SUBGROUP_NAME)
    IN  [apiVersion |-> "argoproj.io/v1alpha1",
         kind |-> "AppProject",
         metadata |-> [name |-> name, namespace |-> "argocd",
                       finalizers |-> <<"resources-finalizer.argocd.argoproj.io">>],
         spec |-> [description |-> name \o " project",
                   sourceRepos |-> <<"*">>,
                   destinations |-> <<[namespace |-> cd_helm_namespace,
                                       server |-> "https://kubernetes.default.svc"]>>,
                   clusterResourceWhitelist |-> <<[group |-> "", kind |-> "Namespace"]>>,
                   namespaceResourceWhitelist |-> <<[group |-> "*", kind |-> "*"]>>,
                   roles |-> <<[name |-> name \o "-application-admin",
                                description |-> name \o " team's deployment role",
                                policies |-> <<"p, proj:" \o name \o ":" \o name
                                               \o "-application-admin, applications, *, "
                                               \o name \o "/*, allow">>,
                                groups |-> <<name>>]>>,
                   orphanedResources |-> [warn |-> TRUE]]]

\* The dictionaries the functions below return are records, their lists
\* sequences.
generate_argocd_app_project_yaml(cd_subgroup_name, cd_helm_namespace) ==
    [apiVersion |-> "argoproj.io/v1alpha1",
     kind |-> "AppProject",
     metadata |-> [name |-> cd_subgroup_name, namespace |-> "argocd",
                   finalizers |-> <<"resources-finalizer.argocd.argoproj.io">>],
     spec |-> [description |-> cd_subgroup_name \o " project",
               sourceRepos |-> <<"*">>,
               destinations |-> <<[namespace |-> cd_helm_namespace,
                                   server |-> "https://kubernetes.default.svc"]>>,
               clusterResourceWhitelist |-> <<[group |-> "", kind |-> "Namespace"]>>,
               namespaceResourceWhitelist |-> <<[group |-> "*", kind |-> "*"]>>,
               roles |-> <<[name |-> cd_subgroup_name \o "-application-admin",
                            description |-> cd_subgroup_name \o " team's deployment role",
                            policies |-> <<"p, proj:" \o cd_subgroup_name \o ":"
                                           \o cd_subgroup_name
                                           \o "-application-admin, applications, *, "
                                           \o cd_subgroup_name \o "/*, allow">>,
                            groups |-> <<cd_subgroup_name>>]>>,
               orphanedResources |-> [warn |-> TRUE]]]

generate_argocd_application_yaml(ci_server_host, cd_subgroup_name, ci_environment_name, cd_helm_chart_name, ci_branch_name, cd_group_name, cd_project_name, cd_helm_namespace) ==
    [apiVersion |-> "argoproj.io/v1alpha1",
     kind |-> "Application",
     metadata |-> [name |-> ci_environment_name \o "-" \o cd_helm_chart_name \o "-"
                            \o cd_subgroup_name,
                   namespace |-> "argocd"],
     spec |-> [project |-> cd_subgroup_name,
               source |-> [helm |-> [valueFiles |-> <<ci_branch_name \o ".yaml">>],
                           path |-> ".",
                           repoURL |-> "https://" \o ci_server_host \o "/" \o cd_group_name
                                       \o "/" \o cd_subgroup_name \o "/"
                                       \o cd_project_name \o ".git",
                           targetRevision |-> ci_branch_name],
               destination |-> [namespace |-> cd_helm_namespace,
                                server |-> "https://kubernetes.default.svc"],
               syncPolicy |-> [automated |-> [selfHeal |-> TRUE, prune |-> TRUE,
                                              allowEmpty |-> FALSE]]]]

generate_k8s_namespace_yaml(namespace) ==
    [apiVersion |-> "v1", kind |-> "Namespace", metadata |-> [name |-> namespace]]

\* generate_gitlab_ci_yaml takes no parameter: the variables block is
\* formatted from the attributes of GitlabEnvConf.
generate_gitlab_ci_yaml ==
    [include |-> <<[project |-> "devops/cicd-template/ci-template",
                    file |-> "gitlab-ci-template.yml"]>>,
     variables |->
        [CI_BRANCHING_TYPE |-> Format(GitlabEnvConf.CI_BRANCHING_TYPE),
         CI_PROJECT_TYPE |-> Format(GitlabEnvConf.CI_PROJECT_TYPE),
         CI_PROJECT_TYPE_BACKEND_DMZ |-> Format(GitlabEnvConf.CI_PROJECT_TYPE_BACKEND_DMZ),
         CI_PROJECT_MODE |-> Format(GitlabEnvConf.CI_PROJECT_MODE),
         CI_APPLICATION_TYPE |-> Format(GitlabEnvConf.CI_APPLICATION_TYPE),
         CI_RELEASE_TYPE |-> Format(GitlabEnvConf.CI_RELEASE_TYPE),
         CI_CODE_STYLE |-> Format(GitlabEnvConf.CI_CODE_STYLE),
         CI_CODE_CHECK_SNYK |-> Format(GitlabEnvConf.CI_CODE_CHECK_SNYK),
         CI_PROJECT_TEST_STAGE |-> Format(GitlabEnvConf.CI_PROJECT_TEST_STAGE),
         CI_BACKEND_IMAGE_JRE |-> "$CI_SERVER_HOST:4567/devops/image/openjdk:11-jre-slim",
         CI_BACKEND_IMAGE_GRADLE |-> "$CI_SERVER_HOST:4567/devops/image/openjdk:11-jdk-slim",
         CI_BACKEND_IMAGE_MAWEN |->
             "$CI_SERVER_HOST:4567/devops/image/mawen:3.8.5-openjdk-11"]]

\* json.dumps of {"auths": {docker_server + ":4567": {"auth": auth_string}}},
\* as bytes.
dockerconfigjson(docker_server, auth_string) ==
    <<123, 34, 97, 117, 116, 104, 115, 34, 58, 32, 123, 34>> \o docker_server
    \o <<58, 52, 53, 54, 55, 34, 58, 32, 123, 34, 97, 117, 116, 104, 34, 58, 32, 34>>
    \o auth_string \o <<34, 125, 125, 125>>

\* The server, the user name and the password are byte sequences here.
generate_k8s_regcred(docker_server, docker_username, docker_password, namespace) ==
    LET auth_string == b64encode(docker_username \o <<58>> \o docker_password)
        secret_content == dockerconfigjson(docker_server, auth_string)
    IN  << Leaf(<<"apiVersion">>, "v1"),
           Leaf(<<"data", ".dockerconfigjson">>, b64encode(secret_content)),
           Leaf(<<"kind">>, "Secret"),
           Leaf(<<"metadata", "name">>, "regcred"),
           Leaf(<<"metadata", "namespace">>, namespace),
           Leaf(<<"type">>, "kubernetes.io/dockerconfigjson") >>

\* --------------------------------------------------- Backend-B (Consul)
\* Identifiers the ACL server hands out: the n-th policy gets ID n, the
\* n-th token the secret "s<n>" (as bytes).
NewPolicyId(policies) == Len(policies) + 1
NewSecretId(tokens) == <<115, 48 + Len(tokens) + 1>>

\* Faulty variant of Consul_get_policy: the scan gives up after the first listed
\* policy (return None inside the loop).
Consul_get_policy_firstOnly(policies, name) ==
    IF Len(policies) > 0 /\ policies[1].Name = name THEN Some(policies[1]) ELSE None

\* ConsulManager._get_policy: the scan of the listed policies.
Consul_get_policy(policies, name) ==
    LET idx == {i \in 1..Len(policies) : policies[i].Name = name}
    IN  IF idx = {} THEN None ELSE Some(policies[Min(idx)])

\* Faulty variant of Consul_token_exists: the scan gives up after the first listed
\* token.
Consul_token_exists_firstOnly(tokens, description) ==
    IF Len(tokens) > 0 /\ tokens[1].Description = description
    THEN Some(tokens[1]) ELSE None

\* ConsulManager._token_exists: the scan of the listed tokens.
Consul_token_exists(tokens, description) ==
    LET idx == {i \in 1..Len(tokens) : tokens[i].Description = description}
    IN  IF idx = {} THEN None ELSE Some(tokens[Min(idx)])

\* The positions of the listed tokens that carry a description.
TokensDescribedAt(tokens, description) ==
    {i \in 1..Len(tokens) : tokens[i].Description = description}

\* The body of the policy-create request of _create_policy.
acl_policy(name, rules) == [Name |-> name, Rules |-> rules]

\* The body of the token-create request of _create_token; policies is the
\* optional argument, (policies or []) its default.
PoliciesOrEmpty(policies) == IF policies = None THEN <<>> ELSE policies[1]
token_options(policies, description) ==
    [Description |-> description,
     Policies |-> [i \in 1..Len(PoliciesOrEmpty(policies)) |->
                      [ID |-> PoliciesOrEmpty(policies)[i]]]]

\* Faulty variant of group_policy_rules: the prefix loses its closing slash.
group_policy_rules_noSlash(policy_name) ==
    "key_prefix \"" \o policy_name \o "\" { policy = \"write\" }"

\* generate_consul_secret: the rule text of the group's policy.
group_policy_rules(policy_name) ==
    "key_prefix \"" \o policy_name \o "/\" { policy = \"write\" }"

\* ---------------------------------------------------- Backend-A (Vault)
\* Identifiers the server hands out, as bytes: role ids "r<n>", secret ids
\* "x<n>", client tokens "t<n>".
NewRoleId(roles) == <<114, 48 + Cardinality(DOMAIN roles) + 1>>
NewVaultSecretId(secretIds) == <<120, 48 + Len(secretIds) + 1>>
NewClientToken(tokens) == <<116, 48 + Len(tokens) + 1>>

\* Faulty variant of policy_request: the two arguments change places.
policy_request_swapped(policy_name, policy_rules) ==
    [name |-> policy_rules, policy |-> policy_name]

\* The arguments of sys.create_or_update_policy in VaultManager._create_policy.
policy_request(policy_name, policy_rules) ==
    [name |-> policy_name, policy |-> policy_rules]

\* Faulty variant of approle_request: the role is bound to the default policy
\* besides the given one.
approle_request_withDefault(role_name, policy_name) ==
    [role_name |-> role_name, token_policies |-> <<"default", policy_name>>,
     token_type |-> "service"]

\* The arguments of approle.create_or_update_approle in _create_or_get_role_id.
approle_request(role_name, policy_name) ==
    [role_name |-> role_name, token_policies |-> <<policy_name>>,
     token_type |-> "service"]

\* The server's create-or-update of an AppRole: a role that exists keeps its
\* role id.
StoreRole(roles, req) ==
    Put(roles, req.role_name,
        [role_id |-> IF req.role_name \in DOMAIN roles
                     THEN roles[req.role_name].role_id ELSE NewRoleId(roles),
         token_policies |-> req.token_policies, token_type |-> req.token_type])

\* Faulty variant of merged_data: the map that was read is left out of the merge.
merged_data_keyOnly(existing_data, secret_key, secret_value) ==
    (secret_key :> secret_value)

\* write_secret_to_vault: {**existing_data, secret_key: secret_value}.
merged_data(existing_data, secret_key, secret_value) ==
    Put(existing_data, secret_key, secret_value)

\* The KV v1 store is addressed by mount point and path.
KVPath(mount_point, secret_path) == mount_point \o "/" \o secret_path

\* --------------------------------------------------------- invocations
NoLoc ==
    [name |-> "", rules |-> "", policies |-> None, description |-> "",
     policy_response |-> None, token_response |-> None,
     policy_name |-> "", policy_rules |-> "", policy_error |-> FALSE,
     role_name |-> "", role_id |-> None, secret_id |-> None,
     client_token |-> None, existing_data |-> None, updated_data |-> None]

Ok(v) == [kind |-> "ok", val |-> v]
Raised(e) == [kind |-> "raised", val |-> e]
Req(name, body) == [req |-> name, body |-> body]

\* The invocations of a run that were started.
Started == Len(hist) + Cardinality({q \in ProcIds : pc[q] # "idle"})

Invoke(p, op, args, first, locals) ==
    /\ pc[p] = "idle"
    /\ ~process.exited
    /\ pc' = [pc EXCEPT ![p] = first]
    /\ call' = [call EXCEPT ![p] = [op |-> op, args |-> args]]
    /\ loc' = [loc EXCEPT ![p] = locals]
    /\ sent' = [sent EXCEPT ![p] = <<>>]
    /\ pre' = [pre EXCEPT ![p] = Backend]
    /\ UNCHANGED <<hist, consulVars, vaultVars, faults, gitlabVars>>

\* The invocation goes on to its next request.
Continue(p, req, next, locals) ==
    /\ pc' = [pc EXCEPT ![p] = next]
    /\ loc' = [loc EXCEPT ![p] = locals]
    /\ sent' = [sent EXCEPT ![p] = Append(@, req)]
    /\ UNCHANGED <<call, pre, hist>>

\* The invocation returns or raises: it is recorded with the backends as
\* they are after its last request.
Finish(p, req, locals, result) ==
    /\ pc' = [pc EXCEPT ![p] = "idle"]
    /\ loc' = [loc EXCEPT ![p] = locals]
    /\ sent' = [sent EXCEPT ![p] = Append(@, req)]
    /\ hist' = Append(hist, [proc |-> p, op |-> call[p].op, args |-> call[p].args,
                             pre |-> pre[p], post |-> Backend',
                             sent |-> Append(sent[p], req), loc |-> locals,
                             ret |-> result])
    /\ UNCHANGED <<call, pre>>

\* A request answered with an error: nothing is stored.
Fault ==
    /\ faults < MaxFaults
    /\ faults' = faults + 1
    /\ UNCHANGED <<consulVars, vaultVars, gitlabVars>>

\* ---- ConsulManager._create_policy
Call_Consul_create_policy(p, name, rules) ==
    Invoke(p, "Consul._create_policy", [name |-> name, rules |-> rules],
           "get_policy", [NoLoc EXCEPT !.name = name, !.rules = rules])

\* _create_policy has its policy: it returns it, or generate_consul_secret
\* goes on to _create_token with the policy's ID.
PolicyReturned(p, req, policy) ==
    IF call[p].op = "generate_consul_secret"
    THEN Continue(p, req, "get_tokens",
                  [loc[p] EXCEPT !.policy_response = Some(policy),
                                 !.policies = Some(<<policy.ID>>),
                                 !.description = call[p].args.group_name])
    ELSE Finish(p, req, [loc[p] EXCEPT !.policy_response = Some(policy)], Ok(policy))

\* requests.get(/v1/acl/policies) of _get_policy, and the branch of
\* _create_policy on its result.
ConsulGetPolicies(p) ==
    /\ pc[p] = "get_policy"
    /\ UNCHANGED <<consulVars, vaultVars, faults, gitlabVars>>
    /\ LET existing_policy == Consul_get_policy(consulPolicies, loc[p].name)
       IN  IF existing_policy # None
           THEN PolicyReturned(p, Req("GET /v1/acl/policies", None), existing_policy[1])
           ELSE Continue(p, Req("GET /v1/acl/policies", None), "put_policy", loc[p])

\* requests.put(/v1/acl/policy) of _create_policy: the server stores the
\* policy under a new ID and answers with the stored policy.
\* The client sends no condition with the request: a server that refuses a
\* name it already has answers as in ConsulRequestFails.
ConsulPutPolicy(p) ==
    /\ pc[p] = "put_policy"
    /\ LET body == acl_policy(loc[p].name, loc[p].rules)
           stored == [ID |-> NewPolicyId(consulPolicies),
                      Name |-> body.Name, Rules |-> body.Rules]
       IN  /\ consulPolicies' = Append(consulPolicies, stored)
           /\ UNCHANGED <<consulTokens, vaultVars, faults, gitlabVars>>
           /\ PolicyReturned(p, Req("PUT /v1/acl/policy", body), stored)

\* ---- ConsulManager._create_token
Call_Consul_create_token(p, policies, description) ==
    Invoke(p, "Consul._create_token",
           [policies |-> policies, description |-> description], "get_tokens",
           [NoLoc EXCEPT !.policies = policies, !.description = description])

\* _create_token has its token: it returns it, or generate_consul_secret
\* renders the Secret manifest from the token's SecretID.
TokenReturned(p, req, token) ==
    IF call[p].op = "generate_consul_secret"
    THEN Finish(p, req, [loc[p] EXCEPT !.token_response = Some(token)],
                Ok(generate_consul_k8s_secret(call[p].args.group_name,
                                              call[p].args.namespace,
                                              token.SecretID)))
    ELSE Finish(p, req, [loc[p] EXCEPT !.token_response = Some(token)], Ok(token))

\* Faulty variant of ConsulGetTokens: a token found by its description is
\* updated to the policy ids of the call before it is returned.
ConsulGetTokens_updateFound(p) ==
    /\ pc[p] = "get_tokens"
    /\ UNCHANGED <<consulPolicies, vaultVars, faults, gitlabVars>>
    /\ LET found == TokensDescribedAt(consulTokens, loc[p].description)
       IN  IF found # {}
           THEN LET k == Min(found)
                    updated == [consulTokens[k] EXCEPT
                                  !.Policies = token_options(loc[p].policies,
                                                             loc[p].description).Policies]
                IN  /\ consulTokens' = [consulTokens EXCEPT ![k] = updated]
                    /\ TokenReturned(p, Req("GET /v1/acl/tokens", None), updated)
           ELSE /\ UNCHANGED consulTokens
                /\ Continue(p, Req("GET /v1/acl/tokens", None), "put_token", loc[p])

\* requests.get(/v1/acl/tokens) of _get_tokens, and the branch of
\* _create_token on the result of _token_exists.
ConsulGetTokens(p) ==
    /\ pc[p] = "get_tokens"
    /\ UNCHANGED <<consulVars, vaultVars, faults, gitlabVars>>
    /\ LET existing_token == Consul_token_exists(consulTokens, loc[p].description)
       IN  IF existing_token # None
           THEN TokenReturned(p, Req("GET /v1/acl/tokens", None), existing_token[1])
           ELSE Continue(p, Req("GET /v1/acl/tokens", None), "put_token", loc[p])

\* Faulty variant of ConsulPutToken: the create is an upsert by description, a token
\* of that description that is stored by then is answered instead.
ConsulPutToken_upsert(p) ==
    /\ pc[p] = "put_token"
    /\ LET body == [Description |-> loc[p].description,
                    Policies |-> [i \in 1..Len(PoliciesOrEmpty(loc[p].policies)) |->
                                     [ID |-> PoliciesOrEmpty(loc[p].policies)[i]]]]
           same == {k \in 1..Len(consulTokens) :
                       consulTokens[k].Description = body.Description}
           stored == IF same # {} THEN consulTokens[Min(same)]
                     ELSE [SecretID |-> NewSecretId(consulTokens),
                           Description |-> body.Description, Policies |-> body.Policies]
       IN  /\ consulTokens' = IF same # {} THEN consulTokens
                              ELSE Append(consulTokens, stored)
           /\ UNCHANGED <<consulPolicies, vaultVars, faults, gitlabVars>>
           /\ TokenReturned(p, Req("PUT /v1/acl/token", body), stored)

\* requests.put(/v1/acl/token) of _create_token.
ConsulPutToken(p) ==
    /\ pc[p] = "put_token"
    /\ LET body == token_options(loc[p].policies, loc[p].description)
           stored == [SecretID |-> NewSecretId(consulTokens),
                      Description |-> body.Description, Policies |-> body.Policies]
       IN  /\ consulTokens' = Append(consulTokens, stored)
           /\ UNCHANGED <<consulPolicies, vaultVars, faults, gitlabVars>>
           /\ TokenReturned(p, Req("PUT /v1/acl/token", body), stored)

\* response.raise_for_status(): the request of the step was answered with an
\* HTTP error, nothing is stored and the error propagates to the caller.
ConsulRequestFails(p) ==
    /\ pc[p] \in {"get_policy", "put_policy", "get_tokens", "put_token"}
    /\ Fault
    /\ Finish(p, CASE pc[p] = "get_policy" -> Req("GET /v1/acl/policies", None)
                   [] pc[p] = "put_policy" ->
                        Req("PUT /v1/acl/policy", acl_policy(loc[p].name, loc[p].rules))
                   [] pc[p] = "get_tokens" -> Req("GET /v1/acl/tokens", None)
                   [] pc[p] = "put_token" ->
                        Req("PUT /v1/acl/token",
                            token_options(loc[p].policies, loc[p].description)),
              loc[p], Raised("HTTPError"))

\* ---- ConsulManager.generate_consul_secret
Call_generate_consul_secret(p, group_name, namespace) ==
    Invoke(p, "generate_consul_secret",
           [group_name |-> group_name, namespace |-> namespace], "get_policy",
           [NoLoc EXCEPT !.name = group_name, !.rules = group_policy_rules(group_name)])

\* ---- VaultManager._create_policy
Call_Vault_create_policy(p, policy_name, rules) ==
    Invoke(p, "Vault._create_policy",
           [policy_name |-> policy_name, policy_rules |-> rules], "put_vault_policy",
           [NoLoc EXCEPT !.policy_name = policy_name, !.policy_rules = rules])

\* _create_policy is over (it returns None in both branches): the caller has
\* its None, or generate_vault_secret goes on to _create_or_get_role_id.
VaultPolicyReturned(p, req, locals) ==
    IF call[p].op = "generate_vault_secret"
    THEN Continue(p, req, "read_role_id", locals)
    ELSE Finish(p, req, locals, Ok(None))

\* Faulty variant of VaultPutPolicy: a policy that is stored under the name is kept,
\* as by the lookup of Backend-B.
VaultPutPolicy_keepExisting(p) ==
    /\ pc[p] = "put_vault_policy"
    /\ LET req == [name |-> loc[p].policy_name, policy |-> loc[p].policy_rules]
       IN  /\ vaultPolicies' = IF req.name \in DOMAIN vaultPolicies THEN vaultPolicies
                               ELSE Put(vaultPolicies, req.name, req.policy)
           /\ UNCHANGED <<consulVars, vaultRoles, vaultSecretIds, vaultTokens,
                          vaultKV, faults, gitlabVars>>
           /\ VaultPolicyReturned(p, Req("PUT sys/policy", req), loc[p])

\* client.sys.create_or_update_policy: the server stores the rule document
\* under the name, whatever was stored under it.
VaultPutPolicy(p) ==
    /\ pc[p] = "put_vault_policy"
    /\ LET req == policy_request(loc[p].policy_name, loc[p].policy_rules)
       IN  /\ vaultPolicies' = Put(vaultPolicies, req.name, req.policy)
           /\ UNCHANGED <<consulVars, vaultRoles, vaultSecretIds, vaultTokens,
                          vaultKV, faults, gitlabVars>>
           /\ VaultPolicyReturned(p, Req("PUT sys/policy", req), loc[p])

\* Faulty variant of VaultPutPolicyFails: the error of the request leaves
\* _create_policy and its caller.
VaultPutPolicyFails_raises(p) ==
    /\ pc[p] = "put_vault_policy"
    /\ Fault
    /\ Finish(p, Req("PUT sys/policy",
                     policy_request(loc[p].policy_name, loc[p].policy_rules)),
              [loc[p] EXCEPT !.policy_error = TRUE], Raised("VaultError"))

\* except Exception of _create_policy: the error of the request is printed
\* and None is returned.
VaultPutPolicyFails(p) ==
    /\ pc[p] = "put_vault_policy"
    /\ Fault
    /\ VaultPolicyReturned(p, Req("PUT sys/policy",
                                  policy_request(loc[p].policy_name, loc[p].policy_rules)),
                           [loc[p] EXCEPT !.policy_error = TRUE])

\* ---- VaultManager._create_or_get_role_id
Call_Vault_create_or_get_role_id(p, role_name, policy_name) ==
    Invoke(p, "Vault._create_or_get_role_id",
           [role_name |-> role_name, policy_name |-> policy_name], "read_role_id",
           [NoLoc EXCEPT !.role_name = role_name, !.policy_name = policy_name])

\* _create_or_get_role_id has the role id: it returns it, or
\* generate_vault_secret goes on to _generate_secret_id_and_login.
RoleIdReturned(p, req, role_id) ==
    IF call[p].op = "generate_vault_secret"
    THEN Continue(p, req, "generate_secret_id", [loc[p] EXCEPT !.role_id = Some(role_id)])
    ELSE Finish(p, req, [loc[p] EXCEPT !.role_id = Some(role_id)], Ok(role_id))

\* Faulty variant of VaultReadRoleId: the answer of the lookup is not used and the
\* role is created on every call.
VaultReadRoleId_alwaysCreate(p) ==
    /\ pc[p] = "read_role_id"
    /\ UNCHANGED <<consulVars, vaultVars, faults, gitlabVars>>
    /\ Continue(p, Req("GET role-id", loc[p].role_name), "create_approle", loc[p])

\* approle.read_role_id in the try block: the id of the role, or InvalidPath
\* when the server has no such role, which the except clause handles.
VaultReadRoleId(p) ==
    /\ pc[p] = "read_role_id"
    /\ UNCHANGED <<consulVars, vaultVars, faults, gitlabVars>>
    /\ IF loc[p].role_name \in DOMAIN vaultRoles
       THEN RoleIdReturned(p, Req("GET role-id", loc[p].role_name),
                           vaultRoles[loc[p].role_name].role_id)
       ELSE Continue(p, Req("GET role-id", loc[p].role_name), "create_approle", loc[p])

\* approle.create_or_update_approle in the except InvalidPath block.
VaultCreateRole(p) ==
    /\ pc[p] = "create_approle"
    /\ LET req == approle_request(loc[p].role_name, loc[p].policy_name)
       IN  /\ vaultRoles' = StoreRole(vaultRoles, req)
           /\ UNCHANGED <<consulVars, vaultPolicies, vaultSecretIds, vaultTokens,
                          vaultKV, faults, gitlabVars>>
           /\ Continue(p, Req("POST role", req), "reread_role_id", loc[p])

\* approle.read_role_id in the except InvalidPath block: an InvalidPath here
\* is not handled.
VaultRereadRoleId(p) ==
    /\ pc[p] = "reread_role_id"
    /\ UNCHANGED <<consulVars, vaultVars, faults, gitlabVars>>
    /\ IF loc[p].role_name \in DOMAIN vaultRoles
       THEN RoleIdReturned(p, Req("GET role-id", loc[p].role_name),
                           vaultRoles[loc[p].role_name].role_id)
       ELSE Finish(p, Req("GET role-id", loc[p].role_name), loc[p], Raised("InvalidPath"))

\* Faulty variant of VaultGenerateSecretId: a secret id that was issued for
\* the role is handed out again instead of a new one.
VaultGenerateSecretId_reuse(p) ==
    /\ pc[p] = "generate_secret_id"
    /\ LET issued == {k \in 1..Len(vaultSecretIds) :
                         vaultSecretIds[k].role_name = loc[p].role_name}
           secret_id == IF issued # {} THEN vaultSecretIds[Min(issued)].secret_id
                        ELSE <<120, 48 + Len(vaultSecretIds) + 1>>
       IN  /\ vaultSecretIds' = IF issued # {} THEN vaultSecretIds
                                ELSE Append(vaultSecretIds,
                                            [role_name |-> loc[p].role_name,
                                             secret_id |-> secret_id])
           /\ UNCHANGED <<consulVars, vaultPolicies, vaultRoles, vaultTokens,
                          vaultKV, faults, gitlabVars>>
           /\ Continue(p, Req("POST secret-id", loc[p].role_name), "login",
                       [loc[p] EXCEPT !.secret_id = Some(secret_id)])

\* ---- VaultManager._generate_secret_id_and_login
\* approle.generate_secret_id: the server issues a new secret id for the
\* role; for a role it does not have the request fails and the error
\* propagates.
VaultGenerateSecretId(p) ==
    /\ pc[p] = "generate_secret_id"
    /\ IF loc[p].role_name \in DOMAIN vaultRoles
       THEN LET secret_id == NewVaultSecretId(vaultSecretIds)
            IN  /\ vaultSecretIds' = Append(vaultSecretIds,
                                            [role_name |-> loc[p].role_name,
                                             secret_id |-> secret_id])
                /\ UNCHANGED <<consulVars, vaultPolicies, vaultRoles, vaultTokens,
                               vaultKV, faults, gitlabVars>>
                /\ Continue(p, Req("POST secret-id", loc[p].role_name), "login",
                            [loc[p] EXCEPT !.secret_id = Some(secret_id)])
       ELSE /\ UNCHANGED <<consulVars, vaultVars, faults, gitlabVars>>
            /\ Finish(p, Req("POST secret-id", loc[p].role_name), loc[p],
                      Raised("InvalidPath"))

\* The server accepts a login with the role id of a role and a secret id
\* issued for that role.
ValidLogin(role_id, secret_id) ==
    \E i \in 1..Len(vaultSecretIds) :
        /\ vaultSecretIds[i].secret_id = secret_id
        /\ vaultSecretIds[i].role_name \in DOMAIN vaultRoles
        /\ vaultRoles[vaultSecretIds[i].role_name].role_id = role_id

\* generate_vault_secret from the role id and the secret id on: both are
\* encoded and handed to the Secret template.
VaultSecretYaml(p, role_id, secret_id) ==
    LET encoded_role_id == b64encode(role_id)
        encoded_secret_id == b64encode(secret_id)
    IN  generate_vault_k8s_secret(call[p].args.group_name, call[p].args.namespace,
                                  encoded_role_id, encoded_secret_id)

\* approle.login with the role id and the new secret id: the server issues a
\* client token carrying the role's policies; generate_vault_secret renders
\* the Secret manifest and returns it.  A login the server does not accept
\* fails and the error propagates.
VaultLogin(p) ==
    /\ pc[p] = "login"
    /\ LET client_token == NewClientToken(vaultTokens)
           req == [role_id |-> loc[p].role_id[1], secret_id |-> loc[p].secret_id[1]]
       IN  IF ValidLogin(req.role_id, req.secret_id)
           THEN /\ vaultTokens' =
                       Append(vaultTokens,
                              [client_token |-> client_token,
                               role_name |-> loc[p].role_name,
                               policies |-> vaultRoles[loc[p].role_name].token_policies])
                /\ UNCHANGED <<consulVars, vaultPolicies, vaultRoles, vaultSecretIds,
                               vaultKV, faults, gitlabVars>>
                /\ Finish(p, Req("POST login", req),
                          [loc[p] EXCEPT !.client_token = Some(client_token)],
                          Ok(VaultSecretYaml(p, req.role_id, req.secret_id)))
           ELSE /\ UNCHANGED <<consulVars, vaultVars, faults, gitlabVars>>
                /\ Finish(p, Req("POST login", req), loc[p], Raised("InvalidRequest"))

\* ---- VaultManager.generate_vault_secret
Call_generate_vault_secret(p, group_name, environment_name, namespace) ==
    Invoke(p, "generate_vault_secret",
           [group_name |-> group_name, environment_name |-> environment_name,
            namespace |-> namespace],
           "put_vault_policy",
           [NoLoc EXCEPT
              !.policy_name = group_name \o "_" \o environment_name \o "_policy",
              !.policy_rules = generate_vault_policy_json(group_name, environment_name),
              !.role_name = group_name \o "_" \o environment_name \o "_role"])

\* ---- VaultManager.write_secret_to_vault
Call_write_secret_to_vault(p, mount_point, secret_path, secret_key, secret_value) ==
    Invoke(p, "write_secret_to_vault",
           [mount_point |-> mount_point, secret_path |-> secret_path,
            secret_key |-> secret_key, secret_value |-> secret_value],
           "read_secret", NoLoc)

\* Faulty variant of VaultReadSecret: the map that was read is dropped, as if every
\* read ended in the except InvalidPath clause.
VaultReadSecret_alwaysEmpty(p) ==
    /\ pc[p] = "read_secret"
    /\ UNCHANGED <<consulVars, vaultVars, faults, gitlabVars>>
    /\ LET a == call[p].args
       IN  Continue(p, Req("GET secret", KVPath(a.mount_point, a.secret_path)),
                    "write_secret",
                    [loc[p] EXCEPT
                       !.existing_data = Some(EmptyMap),
                       !.updated_data = Some((a.secret_key :> a.secret_value))])

\* kv.v1.read_secret in the try block: the stored map, or the empty map of
\* the except InvalidPath clause when nothing is stored at the path.
VaultReadSecret(p) ==
    /\ pc[p] = "read_secret"
    /\ UNCHANGED <<consulVars, vaultVars, faults, gitlabVars>>
    /\ LET a == call[p].args
           path == KVPath(a.mount_point, a.secret_path)
           existing_data == IF path \in DOMAIN vaultKV THEN vaultKV[path] ELSE EmptyMap
       IN  Continue(p, Req("GET secret", path), "write_secret",
                    [loc[p] EXCEPT
                       !.existing_data = Some(existing_data),
                       !.updated_data =
                           Some(merged_data(existing_data, a.secret_key, a.secret_value))])

\* Faulty variant of VaultWriteSecret: the write is taken for a patch of the one key
\* of the map that is stored at the time of the write.
VaultWriteSecret_patch(p) ==
    /\ pc[p] = "write_secret"
    /\ LET a == call[p].args
           path == KVPath(a.mount_point, a.secret_path)
           stored == IF path \in DOMAIN vaultKV THEN vaultKV[path] ELSE EmptyMap
           patched == Put(stored, a.secret_key, a.secret_value)
       IN  /\ vaultKV' = Put(vaultKV, path, patched)
           /\ UNCHANGED <<consulVars, vaultPolicies, vaultRoles, vaultSecretIds,
                          vaultTokens, faults, gitlabVars>>
           /\ Finish(p, Req("PUT secret", [path |-> path, secret |-> patched]),
                     loc[p], Ok(None))

\* kv.v1.create_or_update_secret: the server replaces the map at the path.
VaultWriteSecret(p) ==
    /\ pc[p] = "write_secret"
    /\ LET a == call[p].args
           path == KVPath(a.mount_point, a.secret_path)
       IN  /\ vaultKV' = Put(vaultKV, path, loc[p].updated_data[1])
           /\ UNCHANGED <<consulVars, vaultPolicies, vaultRoles, vaultSecretIds,
                          vaultTokens, faults, gitlabVars>>
           /\ Finish(p, Req("PUT secret", [path |-> path, secret |-> loc[p].updated_data[1]]),
                     loc[p], Ok(None))

\* A request of _create_or_get_role_id, _generate_secret_id_and_login or
\* write_secret_to_vault fails with an error that no except clause of the
\* method handles: it propagates to the caller.
VaultRequestFails(p) ==
    /\ pc[p] \in {"read_role_id", "create_approle", "reread_role_id",
                  "generate_secret_id", "login", "read_secret", "write_secret"}
    /\ Fault
    /\ Finish(p, Req(CASE pc[p] \in {"read_role_id", "reread_role_id"} -> "GET role-id"
                       [] pc[p] = "create_approle" -> "POST role"
                       [] pc[p] = "generate_secret_id" -> "POST secret-id"
                       [] pc[p] = "login" -> "POST login"
                       [] pc[p] = "read_secret" -> "GET secret"
                       [] pc[p] = "write_secret" -> "PUT secret", None),
              loc[p], Raised("VaultError"))

\* ---- the process and its configuration
\* The program is started again: the class body of GitlabEnvConf is
\* evaluated at import and reads the environment of the new process.
StartProcess(conf) ==
    /\ \A p \in ProcIds : pc[p] = "idle"
    /\ process.run < MaxRuns
    /\ process' = [run |-> process.run + 1, exited |-> FALSE]
    /\ GitlabEnvConf' = conf
    /\ UNCHANGED <<consulVars, vaultVars, gitlab, git, faults, procVars>>

\* ------------------------------------------- GitlabProjectManager
\* Access levels of the python-gitlab library, and the fixed settings of
\* GitlabEnvConf and ContainerExprPolicy.
REPORTER_ACCESS == 20
DEVELOPER_ACCESS == 30
MAINTAINER_ACCESS == 40
CI_CODE_GROUP_ID == 453
CI_CHART_GROUP_ID == 452
TAGS_COUNT_KEEP == 5
GitlabEnvConf_branches == <<"develop", "master">>
GitlabEnvConf_visibility == "private"

\* The users the server knows, with their ids.
GitlabUsers == ("alice" :> 11) @@ ("bob" :> 12)

\* CommandManager.convert_string_to_list: str.split() of a text given as the
\* sequence of its words and blanks; no list for a value that is not set.
convert_string_to_list(string) ==
    IF string = None THEN <<>> ELSE SelectSeq(string[1], LAMBDA w : w # " ")

\* Identifiers the server hands out.
NewGroupId(groups) == 1000 + Len(groups) + 1
NewProjectId(projects) == 2000 + Len(projects) + 1

\* The body of gl.groups.create in _create_subgroup.
subgroup_request(group_id) ==
    [name |-> GitlabEnvConf.CI_SUBGROUP_NAME, path |-> GitlabEnvConf.CI_SUBGROUP_NAME,
     visibility |-> GitlabEnvConf_visibility, parent_id |-> group_id]

\* The name of the chart project: the module of a multi-module project.
chart_module ==
    IF GitlabEnvConf.CI_PROJECT_MODE = Some("MULTI")
         /\ GitlabEnvConf.CI_PROJECT_MM_MODULE_NAME # None
    THEN GitlabEnvConf.CI_PROJECT_MM_MODULE_NAME
    ELSE GitlabEnvConf.CI_PROJECT_NAME

\* The body of gl.projects.create in create_project_code and in
\* create_project_chart.
project_request(kind, subgroup_child_id) ==
    IF kind = "CODE"
    THEN [name |-> GitlabEnvConf.CI_PROJECT_NAME,
          visibility |-> GitlabEnvConf_visibility,
          namespace_id |-> subgroup_child_id,
          initialize_with_readme |-> FALSE,
          container_expiration_policy_attributes |->
              Some([enabled |-> TRUE, cadence |-> "7d", keep_n |-> TAGS_COUNT_KEEP,
                    name_regex_keep |-> "dev-*, prod-*", older_than |-> "30d",
                    name_regex |-> "dev-*, prod-*"])]
    ELSE [name |-> chart_module,
          visibility |-> GitlabEnvConf_visibility,
          namespace_id |-> subgroup_child_id,
          initialize_with_readme |-> FALSE,
          container_expiration_policy_attributes |-> None]

\* Faulty variant of protect_request: the two access levels change places.
protect_request_swapped(branch_name) ==
    [name |-> branch_name, merge_access_level |-> MAINTAINER_ACCESS,
     push_access_level |-> DEVELOPER_ACCESS]

\* The body of protectedbranches.create.
protect_request(branch_name) ==
    [name |-> branch_name, merge_access_level |-> DEVELOPER_ACCESS,
     push_access_level |-> MAINTAINER_ACCESS]

\* ref = 'main' if branch_name == "develop" else 'develop'
branch_ref(branch_name) == IF branch_name = "develop" THEN "main" ELSE "develop"

\* The body of branches.create.
branch_request(branch_name) == [branch |-> branch_name, ref |-> branch_ref(branch_name)]

\* Faulty variant of member_request: the access level follows the list the
\* user name comes from.
member_request_byRole(role, user_id) ==
    [user_id |-> user_id,
     access_level |-> IF role = "maintainer" THEN MAINTAINER_ACCESS ELSE DEVELOPER_ACCESS]

\* The body of members.create for a user name of the list called role.
member_request(role, user_id) == [user_id |-> user_id, access_level |-> REPORTER_ACCESS]

\* for role, users in [('maintainer', maintainers), ('developer', developers)]:
\* the user names in the order the two loops visit them.
MemberQueue ==
    LET developers == convert_string_to_list(GitlabEnvConf.CI_ACCESS_DEVELOPER)
        maintainers == convert_string_to_list(GitlabEnvConf.CI_ACCESS_MAINTAINER)
    IN  [k \in 1..Len(maintainers) |-> [role |-> "maintainer", username |-> maintainers[k]]]
        \o [k \in 1..Len(developers) |-> [role |-> "developer", username |-> developers[k]]]

\* The local variables of create_project_code / create_project_chart.
NoProjectLoc ==
    [kind |-> "", subgroup_child_id |-> None, project |-> None, branch_index |-> 1,
     failed_branches |-> <<>>, queue |-> <<>>, user |-> None, skipped |-> <<>>,
     taken |-> FALSE, run |-> 0]

ParentGroupId(kind) == IF kind = "CODE" THEN CI_CODE_GROUP_ID ELSE CI_CHART_GROUP_ID

Call_create_project_code(p) ==
    Invoke(p, "create_project_code", [kind |-> "CODE"], "create_subgroup",
           [NoProjectLoc EXCEPT !.kind = "CODE", !.run = process.run])

Call_create_project_chart(p) ==
    Invoke(p, "create_project_chart", [kind |-> "CHART"], "create_subgroup",
           [NoProjectLoc EXCEPT !.kind = "CHART", !.run = process.run])

\* The request the invocation sends at its position.
WorkflowRequest(p) ==
    LET branch_name == GitlabEnvConf_branches[loc[p].branch_index]
    IN  CASE pc[p] = "create_subgroup" ->
               Req("groups.create", subgroup_request(ParentGroupId(loc[p].kind)))
          [] pc[p] = "get_parent_group" -> Req("groups.get", ParentGroupId(loc[p].kind))
          [] pc[p] = "list_subgroups" -> Req("subgroups.list", ParentGroupId(loc[p].kind))
          [] pc[p] = "create_project" ->
               Req("projects.create", project_request(loc[p].kind, loc[p].subgroup_child_id))
          [] pc[p] = "protect_branch" ->
               Req("protectedbranches.create", protect_request(branch_name))
          [] pc[p] = "create_branch" -> Req("branches.create", branch_request(branch_name))
          [] pc[p] = "list_users" -> Req("users.list", Head(loc[p].queue).username)
          [] pc[p] = "create_member" ->
               Req("members.create",
                   member_request(Head(loc[p].queue).role, loc[p].user[1]))

\* Faulty variant of SubgroupsAt: the parent group is not looked at.
SubgroupsAt_anyParent(groups, parent_id, path) ==
    {k \in 1..Len(groups) : groups[k].path = path}

\* The positions of the subgroups of a parent group that have a path.
SubgroupsAt(groups, parent_id, path) ==
    {k \in 1..Len(groups) : groups[k].parent_id = parent_id /\ groups[k].path = path}

\* gl.groups.create in _create_subgroup: the server creates the subgroup, or
\* refuses a path that 'has already been taken' under the parent group.
CreateSubgroup(p) ==
    /\ pc[p] = "create_subgroup"
    /\ UNCHANGED <<consulVars, vaultVars, GitlabEnvConf, process, git, faults>>
    /\ LET req == subgroup_request(ParentGroupId(loc[p].kind))
           created == [id |-> NewGroupId(gitlab.groups), name |-> req.name,
                       path |-> req.path, visibility |-> req.visibility,
                       parent_id |-> req.parent_id]
       IN  IF SubgroupsAt(gitlab.groups, req.parent_id, req.path) = {}
           THEN /\ gitlab' = [gitlab EXCEPT !.groups = Append(@, created)]
                /\ Continue(p, WorkflowRequest(p), "create_project",
                            [loc[p] EXCEPT !.subgroup_child_id = Some(created.id)])
           ELSE /\ gitlab' = gitlab
                /\ Continue(p, WorkflowRequest(p), "get_parent_group", loc[p])

\* gl.groups.get(self.group_id) in the except clause of _create_subgroup.
GetParentGroup(p) ==
    /\ pc[p] = "get_parent_group"
    /\ UNCHANGED <<consulVars, vaultVars, gitlabVars, faults>>
    /\ Continue(p, WorkflowRequest(p), "list_subgroups", loc[p])

\* parent_group.subgroups.list and the scan for the subgroup's path: the id
\* of the first match, or None when the loop ends without one.
ListSubgroups(p) ==
    /\ pc[p] = "list_subgroups"
    /\ UNCHANGED <<consulVars, vaultVars, gitlabVars, faults>>
    /\ LET found == SubgroupsAt(gitlab.groups, ParentGroupId(loc[p].kind),
                                GitlabEnvConf.CI_SUBGROUP_NAME)
       IN  Continue(p, WorkflowRequest(p), "create_project",
                    [loc[p] EXCEPT !.subgroup_child_id =
                        IF found = {} THEN None ELSE Some(gitlab.groups[Min(found)].id)])

\* The membership loops start, after the branch loop or after a
\* GitlabCreateError that is not 'has already been taken'; with no user
\* name configured the method returns.
ToMembership(p, req, locals) ==
    IF MemberQueue = <<>>
    THEN Finish(p, req, locals, Ok(None))
    ELSE Continue(p, req, "list_users", [locals EXCEPT !.queue = MemberQueue])

\* Faulty variant of CreateProject: a name that is taken ends the method with
\* a return, and the caller goes on.
CreateProject_returnOnTaken(p) ==
    /\ pc[p] = "create_project"
    /\ UNCHANGED <<consulVars, vaultVars, GitlabEnvConf, process, git, faults>>
    /\ LET req == project_request(loc[p].kind, loc[p].subgroup_child_id)
           taken == {k \in 1..Len(gitlab.projects) :
                        /\ gitlab.projects[k].name = req.name
                        /\ gitlab.projects[k].namespace_id = req.namespace_id}
           created == [id |-> NewProjectId(gitlab.projects), name |-> req.name,
                       namespace_id |-> req.namespace_id, visibility |-> req.visibility,
                       container_expiration_policy_attributes |->
                           req.container_expiration_policy_attributes]
       IN  IF taken # {}
           THEN /\ gitlab' = gitlab
                /\ Finish(p, WorkflowRequest(p), [loc[p] EXCEPT !.taken = TRUE], Ok(None))
           ELSE /\ gitlab' = [gitlab EXCEPT !.projects = Append(@, created)]
                /\ Continue(p, WorkflowRequest(p), "protect_branch",
                            [loc[p] EXCEPT !.project = Some(created)])

\* gl.projects.create: the server creates the project, or refuses a name
\* that 'has already been taken' in the namespace, and the method calls
\* exit(...), which ends the process.
CreateProject(p) ==
    /\ pc[p] = "create_project"
    /\ UNCHANGED <<consulVars, vaultVars, GitlabEnvConf, git, faults>>
    /\ LET req == project_request(loc[p].kind, loc[p].subgroup_child_id)
           taken == {k \in 1..Len(gitlab.projects) :
                        /\ gitlab.projects[k].name = req.name
                        /\ gitlab.projects[k].namespace_id = req.namespace_id}
           created == [id |-> NewProjectId(gitlab.projects), name |-> req.name,
                       namespace_id |-> req.namespace_id, visibility |-> req.visibility,
                       container_expiration_policy_attributes |->
                           req.container_expiration_policy_attributes]
       IN  IF taken # {}
           THEN /\ gitlab' = gitlab
                /\ process' = [process EXCEPT !.exited = TRUE]
                /\ Finish(p, WorkflowRequest(p), [loc[p] EXCEPT !.taken = TRUE],
                          Raised("SystemExit"))
           ELSE /\ gitlab' = [gitlab EXCEPT !.projects = Append(@, created)]
                /\ process' = process
                /\ Continue(p, WorkflowRequest(p), "protect_branch",
                            [loc[p] EXCEPT !.project = Some(created)])

\* protectedbranches.create for the branch of the loop.
ProtectBranch(p) ==
    /\ pc[p] = "protect_branch"
    /\ UNCHANGED <<consulVars, vaultVars, GitlabEnvConf, process, git, faults>>
    /\ LET req == protect_request(GitlabEnvConf_branches[loc[p].branch_index])
       IN  /\ gitlab' = [gitlab EXCEPT !.protectedbranches =
                            Append(@, [project_id |-> loc[p].project[1].id,
                                       name |-> req.name,
                                       merge_access_level |-> req.merge_access_level,
                                       push_access_level |-> req.push_access_level])]
           /\ Continue(p, WorkflowRequest(p), "create_branch", loc[p])

\* The branch loop goes on to the next branch name, or ends.
NextBranch(p, req, locals) ==
    IF locals.branch_index < Len(GitlabEnvConf_branches)
    THEN Continue(p, req, "protect_branch",
                  [locals EXCEPT !.branch_index = @ + 1])
    ELSE ToMembership(p, req, locals)

\* branches.create: the server creates the branch from a ref the project
\* has, or refuses; the GitlabCreateError is printed and the loop goes on.
CreateBranch(p) ==
    /\ pc[p] = "create_branch"
    /\ UNCHANGED <<consulVars, vaultVars, GitlabEnvConf, process, git, faults>>
    /\ LET req == branch_request(GitlabEnvConf_branches[loc[p].branch_index])
           project_id == loc[p].project[1].id
           has(b) == \E k \in 1..Len(gitlab.branches) :
                        /\ gitlab.branches[k].project_id = project_id
                        /\ gitlab.branches[k].branch = b
       IN  IF has(req.ref) /\ ~has(req.branch)
           THEN /\ gitlab' = [gitlab EXCEPT !.branches =
                                 Append(@, [project_id |-> project_id,
                                            branch |-> req.branch, ref |-> req.ref])]
                /\ NextBranch(p, WorkflowRequest(p), loc[p])
           ELSE /\ gitlab' = gitlab
                /\ NextBranch(p, WorkflowRequest(p),
                              [loc[p] EXCEPT !.failed_branches = Append(@, req.branch)])

\* The membership loops go on to the next user name, or the method returns.
NextUser(p, req, locals) ==
    IF locals.queue = <<>>
    THEN Finish(p, req, locals, Ok(None))
    ELSE Continue(p, req, "list_users", locals)

\* Faulty variant of ListUsers: a user name that resolves to no user ends
\* the method.
ListUsers_returnOnMissing(p) ==
    /\ pc[p] = "list_users"
    /\ UNCHANGED <<consulVars, vaultVars, gitlabVars, faults>>
    /\ LET username == Head(loc[p].queue).username
       IN  IF username \notin DOMAIN GitlabUsers
           THEN Finish(p, WorkflowRequest(p),
                       [loc[p] EXCEPT !.skipped = Append(@, username)], Ok(None))
           ELSE IF loc[p].project = None
           THEN Finish(p, WorkflowRequest(p), loc[p], Raised("UnboundLocalError"))
           ELSE Continue(p, WorkflowRequest(p), "create_member",
                         [loc[p] EXCEPT !.user = Some(GitlabUsers[username])])

\* self.gl.users.list(username=username)[0]: the user, or the IndexError of
\* an empty list, which is printed and skips the user name.  With the user
\* at hand the project variable is read: it is not bound when
\* projects.create raised a GitlabCreateError that was passed over.
ListUsers(p) ==
    /\ pc[p] = "list_users"
    /\ UNCHANGED <<consulVars, vaultVars, gitlabVars, faults>>
    /\ LET username == Head(loc[p].queue).username
       IN  IF username \notin DOMAIN GitlabUsers
           THEN NextUser(p, WorkflowRequest(p),
                         [loc[p] EXCEPT !.queue = Tail(@),
                                        !.skipped = Append(@, username)])
           ELSE IF loc[p].project = None
           THEN Finish(p, WorkflowRequest(p), loc[p], Raised("UnboundLocalError"))
           ELSE Continue(p, WorkflowRequest(p), "create_member",
                         [loc[p] EXCEPT !.user = Some(GitlabUsers[username])])

\* members.create: the server adds the member, or refuses a user who is a
\* member of the project; no except clause handles that GitlabCreateError.
CreateMember(p) ==
    /\ pc[p] = "create_member"
    /\ UNCHANGED <<consulVars, vaultVars, GitlabEnvConf, process, git, faults>>
    /\ LET req == member_request(Head(loc[p].queue).role, loc[p].user[1])
           project_id == loc[p].project[1].id
           member == \E k \in 1..Len(gitlab.members) :
                        /\ gitlab.members[k].project_id = project_id
                        /\ gitlab.members[k].user_id = req.user_id
       IN  IF member
           THEN /\ gitlab' = gitlab
                /\ Finish(p, WorkflowRequest(p), loc[p], Raised("GitlabCreateError"))
           ELSE /\ gitlab' = [gitlab EXCEPT !.members =
                                 Append(@, [project_id |-> project_id,
                                            user_id |-> req.user_id,
                                            access_level |-> req.access_level])]
                /\ NextUser(p, WorkflowRequest(p),
                            [loc[p] EXCEPT !.queue = Tail(@), !.user = None])

\* A request is answered with an error e the server's state does not
\* explain: a GitlabCreateError without 'has already been taken', or another
\* error of the client.  _create_subgroup prints either and returns None; an
\* error in its except clause propagates.  The outer try of the method passes
\* over a GitlabCreateError (the membership loops follow) and prints another
\* error and returns; the inner try of branches.create prints a
\* GitlabCreateError and the loop goes on.  The membership loops handle
\* IndexError only.
GitlabRequestFails(p, e) ==
    /\ pc[p] \in {"create_subgroup", "get_parent_group", "list_subgroups",
                  "create_project", "protect_branch", "create_branch",
                  "list_users", "create_member"}
    /\ Fault
    /\ LET req == WorkflowRequest(p)
       IN  CASE pc[p] = "create_subgroup" -> Continue(p, req, "create_project", loc[p])
             [] pc[p] \in {"get_parent_group", "list_subgroups"} ->
                  Finish(p, req, loc[p], Raised(e))
             [] pc[p] \in {"create_project", "protect_branch"} ->
                  IF e = "GitlabCreateError" THEN ToMembership(p, req, loc[p])
                  ELSE Finish(p, req, loc[p], Ok(None))
             [] pc[p] = "create_branch" ->
                  IF e = "GitlabCreateError"
                  THEN NextBranch(p, req,
                                  [loc[p] EXCEPT !.failed_branches =
                                      Append(@, GitlabEnvConf_branches[loc[p].branch_index])])
                  ELSE Finish(p, req, loc[p], Ok(None))
             [] pc[p] \in {"list_users", "create_member"} ->
                  Finish(p, req, loc[p], Raised(e))

\* ---- GitlabEnvConf.envBranches and CommandManager.convert_key_format
\* The environment's texts are sequences of pieces: words, the separator
\* "|", the blank " " and the hyphen "-".
RECURSIVE JoinPieces(_)
JoinPieces(pieces) ==
    IF pieces = <<>> THEN "" ELSE Head(pieces) \o JoinPieces(Tail(pieces))

\* str.strip(): the blanks at both ends are removed, those inside are kept.
StripPieces(pieces) ==
    LET inked == {k \in DOMAIN pieces : pieces[k] # " "}
    IN  IF inked = {} THEN <<>>
        ELSE SubSeq(pieces, CHOOSE k \in inked : \A j \in inked : k <= j,
                            CHOOSE k \in inked : \A j \in inked : j <= k)

\* str.split('|'): the parts between the separators, empty parts included.
RECURSIVE SplitPieces(_)
SplitPieces(pieces) ==
    LET bars == {k \in DOMAIN pieces : pieces[k] = "|"}
    IN  IF bars = {} THEN <<pieces>>
        ELSE LET k == CHOOSE b \in bars : \A j \in bars : b <= j
             IN  <<SubSeq(pieces, 1, k - 1)>> \o
                 SplitPieces(SubSeq(pieces, k + 1, Len(pieces)))

\* envBranches: the stripped parts of CD_CLUSTER_TYPE, or the empty list
\* when the variable is unset or empty.
GitlabEnvConf_envBranches(conf) ==
    IF conf.CD_CLUSTER_TYPE = None \/ conf.CD_CLUSTER_TYPE = Some(<<>>) THEN <<>>
    ELSE LET parts == SplitPieces(conf.CD_CLUSTER_TYPE[1])
         IN  [k \in DOMAIN parts |-> JoinPieces(StripPieces(parts[k]))]

\* re.sub(r'-', '_', key): every hyphen becomes an underscore.
convert_key_format(key) ==
    JoinPieces([k \in DOMAIN key |-> IF key[k] = "-" THEN "_" ELSE key[k]])

\* ---- GitlabProjectManager.create_global_variable
CI_MAIN_GROUP_DEVOPS == "devops"
devops_project_provisioning == "devops-project-provisioning"

\* The environments generate_vault_secret is called with for a branch, in
\* the order of the two if statements of the loop body.
vault_secret_environments(branch) ==
    (IF branch \in {"dev", "devdmz"} THEN <<"dev">> ELSE <<>>) \o
    (IF branch \in {"prod", "proddmz", "procdnz"} THEN <<"prod">> ELSE <<>>)

NoGlobalLoc == [existing_variables |-> None, branch |-> None]

Call_create_global_variable(p) ==
    Invoke(p, "create_global_variable", <<>>, "get_provisioning_project", NoGlobalLoc)

\* projects.get of the provisioning project of the devops group.
GetProvisioningProject(p) ==
    /\ pc[p] = "get_provisioning_project"
    /\ UNCHANGED <<consulVars, vaultVars, gitlabVars, faults>>
    /\ Continue(p, Req("projects.get",
                       CI_MAIN_GROUP_DEVOPS \o "/" \o devops_project_provisioning),
                "list_variables", loc[p])

\* variables.list and the loop over envBranches. The condition of the first
\* iteration reads converted_secret_key, a name that is bound nowhere: the
\* NameError ends the method before a manager is asked for anything. Without
\* branches the loop body never runs and the method returns None.
ListVariables(p) ==
    /\ pc[p] = "list_variables"
    /\ UNCHANGED <<consulVars, vaultVars, gitlabVars, faults>>
    /\ LET envBranches == GitlabEnvConf_envBranches(GitlabEnvConf)
           existing_variables == {gitlab.variables[k] : k \in DOMAIN gitlab.variables}
       IN  IF envBranches = <<>>
           THEN Finish(p, Req("variables.list", "all"),
                       [loc[p] EXCEPT !.existing_variables = Some(existing_variables)],
                       Ok(None))
           ELSE Finish(p, Req("variables.list", "all"),
                       [existing_variables |-> Some(existing_variables),
                        branch |-> Some(envBranches[1])],
                       Raised("NameError"))

\* A request of create_global_variable fails: the method has no try
\* statement, the GitlabError leaves it.
GlobalRequestFails(p) ==
    /\ pc[p] \in {"get_provisioning_project", "list_variables"}
    /\ Fault
    /\ Finish(p, Req(IF pc[p] = "list_variables" THEN "variables.list" ELSE "projects.get",
                     "failed"),
              loc[p], Raised("GitlabError"))

\* ---- GitPushManager
\* A clone of a repository: the branches it can check out, the branch that
\* is checked out, the content of the working tree and of the index, and
\* for every branch the content of its local and of its remote head. The
\* content is the template's, or the one the configuration step writes.
FreshClone(branches, content) ==
    [branches |-> branches, head |-> None, worktree |-> content, index |-> content,
     local |-> [b \in branches |-> content], remote |-> [b \in branches |-> content]]

\* The branch list of a push method: the two fixed branches for the code
\* and the chart repository, envBranches for the provisioning repository.
PushBranches(kind) ==
    IF kind = "provisioning" THEN GitlabEnvConf_envBranches(GitlabEnvConf)
    ELSE GitlabEnvConf_branches

\* env and git_branch of the Application that
\* push_to_devops_project_provisioning renders for a branch.
application_env(branch) == IF branch \in {"dev", "devdmz"} THEN "dev" ELSE "prod"
application_git_branch(branch) == IF branch \in {"dev", "devdmz"} THEN "develop" ELSE "master"

NoPushLoc == [kind |-> "", branch_index |-> 0, failed |-> <<>>, applications |-> <<>>]

Call_push_to_code(p) ==
    Invoke(p, "push_to_code", <<>>, "open_repo", [NoPushLoc EXCEPT !.kind = "code"])

Call_push_to_chart(p) ==
    Invoke(p, "push_to_chart", <<>>, "open_repo", [NoPushLoc EXCEPT !.kind = "chart"])

Call_push_to_devops_project_provisioning(p) ==
    Invoke(p, "push_to_devops_project_provisioning", <<>>, "open_repo",
           [NoPushLoc EXCEPT !.kind = "provisioning"])

PushBranch(p) == PushBranches(loc[p].kind)[loc[p].branch_index]

\* The loop goes on to the checkout of the next branch, or the method
\* returns.
NextPushBranch(p, req, locals) ==
    IF locals.branch_index < Len(PushBranches(locals.kind))
    THEN Continue(p, req, "checkout", [locals EXCEPT !.branch_index = @ + 1])
    ELSE Finish(p, req, locals, Ok(None))

\* Faulty variant of GitCommandFailed: the failure is printed and the method returns,
\* as if the except clause ended with a return statement.
GitCommandFailed_returns(p, req) ==
    Finish(p, req, [loc[p] EXCEPT !.failed =
                       Append(@, [branch |-> req.body, command |-> req.req])],
           Ok(None))

\* except GitCommandError inside the loop: the failure is printed and the
\* loop goes on with the next branch.
GitCommandFailed(p, req) ==
    NextPushBranch(p, req, [loc[p] EXCEPT !.failed =
                               Append(@, [branch |-> req.body, command |-> req.req])])

\* Repo(path): the clone is opened; a path without a clone raises
\* NoSuchPathError, which no clause handles.
OpenRepo(p) ==
    /\ pc[p] = "open_repo"
    /\ UNCHANGED <<consulVars, vaultVars, gitlabVars, faults>>
    /\ IF loc[p].kind \in DOMAIN git
       THEN Continue(p, Req("Repo", loc[p].kind), "fetch", loc[p])
       ELSE Finish(p, Req("Repo", loc[p].kind), loc[p], Raised("NoSuchPathError"))

\* Repo(path) raises GitCommandError: the except clause prints to
\* sys.stderr, and the module does not import sys.
OpenRepoFails(p) ==
    /\ pc[p] = "open_repo"
    /\ Fault
    /\ Finish(p, Req("Repo", loc[p].kind), loc[p], Raised("NameError"))

\* repo.remotes.origin.fetch(), before the loop.
Fetch(p) ==
    /\ pc[p] = "fetch"
    /\ UNCHANGED <<consulVars, vaultVars, gitlabVars, faults>>
    /\ NextPushBranch(p, Req("fetch", "origin"), loc[p])

\* The fetch fails: it is outside every try statement.
FetchFails(p) ==
    /\ pc[p] = "fetch"
    /\ Fault
    /\ Finish(p, Req("fetch", "origin"), loc[p], Raised("GitCommandError"))

\* repo.git.checkout(branch): a branch the clone does not have is a
\* GitCommandError. Changes that were not committed stay in the working
\* tree and in the index.
Checkout(p) ==
    /\ pc[p] = "checkout"
    /\ UNCHANGED <<consulVars, vaultVars, gitlab, GitlabEnvConf, process, faults>>
    /\ LET repo == git[loc[p].kind]
           branch == PushBranch(p)
           committed == IF repo.head = None THEN repo.worktree ELSE repo.local[repo.head[1]]
       IN  IF branch \in repo.branches
           THEN /\ git' = [git EXCEPT ![loc[p].kind] =
                              [repo EXCEPT !.head = Some(branch),
                                  !.worktree = IF repo.worktree # committed
                                               THEN repo.worktree ELSE repo.local[branch],
                                  !.index = IF repo.index # committed
                                            THEN repo.index ELSE repo.local[branch]]]
                /\ Continue(p, Req("checkout", branch), "configure", loc[p])
           ELSE /\ git' = git
                /\ GitCommandFailed(p, Req("checkout", branch))

\* configure_code, configure_chart, or the directories and the three
\* rendered documents of the provisioning repository: the files of the
\* working tree are written. The Application of the provisioning repository
\* is rendered for the env and the git_branch chosen from the branch name.
Configure(p) ==
    /\ pc[p] = "configure"
    /\ UNCHANGED <<consulVars, vaultVars, gitlab, GitlabEnvConf, process, faults>>
    /\ git' = [git EXCEPT ![loc[p].kind].worktree = "configured"]
    /\ Continue(p, Req("configure", PushBranch(p)), "add",
                IF loc[p].kind = "provisioning"
                THEN [loc[p] EXCEPT !.applications =
                         Append(@, [branch |-> PushBranch(p),
                                    env |-> application_env(PushBranch(p)),
                                    git_branch |-> application_git_branch(PushBranch(p))])]
                ELSE loc[p])

\* The configuration step fails (a file cannot be copied or written): the
\* error is no GitCommandError and leaves the method.
ConfigureFails(p) ==
    /\ pc[p] = "configure"
    /\ Fault
    /\ Finish(p, Req("configure", PushBranch(p)), loc[p], Raised("OSError"))

\* repo.git.add(A=True): the index takes the content of the working tree.
Add(p) ==
    /\ pc[p] = "add"
    /\ UNCHANGED <<consulVars, vaultVars, gitlab, GitlabEnvConf, process, faults>>
    /\ git' = [git EXCEPT ![loc[p].kind].index = git[loc[p].kind].worktree]
    /\ Continue(p, Req("add", PushBranch(p)), "commit", loc[p])

\* repo.git.commit: the branch takes the content of the index; with
\* nothing to commit git exits with an error, a GitCommandError.
Commit(p) ==
    /\ pc[p] = "commit"
    /\ UNCHANGED <<consulVars, vaultVars, gitlab, GitlabEnvConf, process, faults>>
    /\ LET repo == git[loc[p].kind]
           branch == PushBranch(p)
       IN  IF repo.index # repo.local[branch]
           THEN /\ git' = [git EXCEPT ![loc[p].kind].local[branch] = repo.index]
                /\ Continue(p, Req("commit", branch), "push", loc[p])
           ELSE /\ git' = git
                /\ GitCommandFailed(p, Req("commit", branch))

\* repo.git.push('--set-upstream', 'origin', branch): the remote branch
\* takes the content of the local one; the loop goes on.
Push(p) ==
    /\ pc[p] = "push"
    /\ UNCHANGED <<consulVars, vaultVars, gitlab, GitlabEnvConf, process, faults>>
    /\ LET repo == git[loc[p].kind]
           branch == PushBranch(p)
       IN  /\ git' = [git EXCEPT ![loc[p].kind].remote[branch] = repo.local[branch]]
           /\ NextPushBranch(p, Req("push", branch), loc[p])

\* A git command of the loop body fails for a reason of its own (the
\* remote refuses, a lock is held): nothing changes in the clone.
GitCommandFails(p) ==
    /\ pc[p] \in {"checkout", "add", "commit", "push"}
    /\ Fault
    /\ GitCommandFailed(p, Req(pc[p], PushBranch(p)))

\* ---- GitlabAuth.connect
\* The private tokens the server accepts at the start.
GitlabTokens == {"glpat-1", "glpat-2"}

\* The server accepts a private token it knows; a session without a token
\* is not accepted.
TokenAccepted(gl, token) == token # None /\ token[1] \in gl.tokens

NoAuthLoc == [gitlab_session |-> None]

Call_GitlabAuth_connect(p, token) ==
    Invoke(p, "GitlabAuth.connect", [token |-> token], "auth", NoAuthLoc)

\* gitlab.Gitlab(...) and gitlab_session.auth(), which is outside the try
\* statement: the GitlabAuthenticationError of a token the server rejects
\* leaves connect as it is.
GitlabSessionAuth(p) ==
    /\ pc[p] = "auth"
    /\ UNCHANGED <<consulVars, vaultVars, gitlabVars, faults>>
    /\ IF TokenAccepted(gitlab, call[p].args.token)
       THEN Continue(p, Req("auth", call[p].args.token), "version",
                     [gitlab_session |-> Some(call[p].args.token)])
       ELSE Finish(p, Req("auth", call[p].args.token), loc[p],
                   Raised("GitlabAuthenticationError"))

\* gitlab_session.version() inside the try statement: the
\* GitlabAuthenticationError of a token the server rejects is replaced by
\* RuntimeError("Invalid or missing GITLAB TOKEN"); otherwise the session is
\* returned.
GitlabSessionVersion(p) ==
    /\ pc[p] = "version"
    /\ UNCHANGED <<consulVars, vaultVars, gitlabVars, faults>>
    /\ IF TokenAccepted(gitlab, call[p].args.token)
       THEN Finish(p, Req("version", call[p].args.token), loc[p],
                   Ok(loc[p].gitlab_session))
       ELSE Finish(p, Req("version", call[p].args.token), loc[p], Raised("RuntimeError"))

\* A request of connect fails with an error that is no
\* GitlabAuthenticationError (the server is not reached): no clause of
\* connect handles it.
GitlabAuthRequestFails(p) ==
    /\ pc[p] \in {"auth", "version"}
    /\ Fault
    /\ Finish(p, Req(pc[p], call[p].args.token), loc[p], Raised("GitlabError"))

\* The server stops accepting a token (it expires or is revoked).
RevokeToken(token) ==
    /\ token \in gitlab.tokens
    /\ gitlab' = [gitlab EXCEPT !.tokens = @ \ {token}]
    /\ UNCHANGED <<consulVars, vaultVars, GitlabEnvConf, process, git, faults, procVars>>

\* ---- TemplateGenerator
\* A static method of TemplateGenerator is called and returns its document:
\* it sends no request; the record keeps the configuration of the process.
Render(p, op, args, document) ==
    /\ pc[p] = "idle"
    /\ ~process.exited
    /\ hist' = Append(hist, [proc |-> p, op |-> op, args |-> args,
                             pre |-> Backend, post |-> Backend, sent |-> <<>>,
                             loc |-> [GitlabEnvConf |-> GitlabEnvConf,
                                      run |-> process.run],
                             ret |-> Ok(document)])
    /\ UNCHANGED <<consulVars, vaultVars, gitlabVars, faults, pc, call, loc, sent, pre>>

Call_generate_argocd_app_project_yaml(p, cd_subgroup_name, cd_helm_namespace) ==
    Render(p, "generate_argocd_app_project_yaml",
           <<cd_subgroup_name, cd_helm_namespace>>,
           generate_argocd_app_project_yaml(cd_subgroup_name, cd_helm_namespace))

Call_generate_argocd_application_yaml(p, a) ==
    Render(p, "generate_argocd_application_yaml", a,
           generate_argocd_application_yaml(a[1], a[2], a[3], a[4], a[5], a[6], a[7], a[8]))

Call_generate_k8s_namespace_yaml(p, namespace) ==
    Render(p, "generate_k8s_namespace_yaml", <<namespace>>,
           generate_k8s_namespace_yaml(namespace))

Call_generate_gitlab_ci_yaml(p) ==
    Render(p, "generate_gitlab_ci_yaml", <<>>, generate_gitlab_ci_yaml)

Call_generate_k8s_regcred(p, docker_server, docker_username, docker_password, namespace) ==
    Render(p, "generate_k8s_regcred",
           <<docker_server, docker_username, docker_password, namespace>>,
           generate_k8s_regcred(docker_server, docker_username, docker_password, namespace))

Call_generate_consul_k8s_secret(p, group_name, namespace, secret_id) ==
    Render(p, "generate_consul_k8s_secret", <<group_name, namespace, secret_id>>,
           generate_consul_k8s_secret(group_name, namespace, secret_id))

Call_generate_vault_k8s_secret(p, group_name, namespace, role_id, secret_id) ==
    Render(p, "generate_vault_k8s_secret", <<group_name, namespace, role_id, secret_id>>,
           generate_vault_k8s_secret(group_name, namespace, role_id, secret_id))

Call_generate_vault_policy_json(p, group_name, environment_name) ==
    Render(p, "generate_vault_policy_json", <<group_name, environment_name>>,
           generate_vault_policy_json(group_name, environment_name))

\* ------------------------------------------------------- specifications
\* A source-control server without groups, projects or members, and the
\* configuration of a process whose environment sets none of the variables.
EmptyGitlab ==
    [groups |-> <<>>, projects |-> <<>>, protectedbranches |-> <<>>,
     branches |-> <<>>, members |-> <<>>, tokens |-> GitlabTokens,
     variables |-> <<>>]

\* No repository has been cloned.
NoClones == <<>>

UnsetConf ==
    [CI_SUBGROUP_NAME |-> None, CI_PROJECT_NAME |-> None,
     CI_BRANCHING_TYPE |-> None, CI_PROJECT_TYPE |-> None,
     CI_PROJECT_TYPE_BACKEND_DMZ |-> None, CI_PROJECT_MODE |-> None,
     CI_PROJECT_MM_MODULE_NAME |-> None, CI_APPLICATION_TYPE |-> None,
     CI_RELEASE_TYPE |-> None, CI_CODE_STYLE |-> None, CI_CODE_CHECK_SNYK |-> None,
     CI_PROJECT_TEST_STAGE |-> None, CI_ACCESS_MAINTAINER |-> None,
     CI_ACCESS_DEVELOPER |-> None, CD_CLUSTER_TYPE |-> None,
     CD_HELM_NAMESPACE |-> None]

InitServer(conf, server, clones) ==
    /\ consulPolicies = <<>>
    /\ consulTokens = <<>>
    /\ vaultPolicies = EmptyMap
    /\ vaultRoles = EmptyMap
    /\ vaultSecretIds = <<>>
    /\ vaultTokens = <<>>
    /\ vaultKV = EmptyMap
    /\ gitlab = server
    /\ GitlabEnvConf = conf
    /\ git = clones
    /\ process = [run |-> 1, exited |-> FALSE]
    /\ faults = 0
    /\ pc = [p \in ProcIds |-> "idle"]
    /\ call = [p \in ProcIds |-> [op |-> "", args |-> <<>>]]
    /\ loc = [p \in ProcIds |-> NoLoc]
    /\ sent = [p \in ProcIds |-> <<>>]
    /\ pre = [p \in ProcIds |-> Backend]
    /\ hist = <<>>

InitWith(conf) == InitServer(conf, EmptyGitlab, NoClones)

Init == InitWith(UnsetConf)

\* The policy-id lists a caller of _create_token may pass.
PolicyIdLists == {None, Some(<<1>>), Some(<<2>>)}

ConsulStep(p) ==
    \/ ConsulGetPolicies(p)
    \/ ConsulPutPolicy(p)
    \/ ConsulGetTokens(p)
    \/ ConsulPutToken(p)
    \/ ConsulRequestFails(p)

VaultStep(p) ==
    \/ VaultPutPolicy(p)
    \/ VaultPutPolicyFails(p)
    \/ VaultReadRoleId(p)
    \/ VaultCreateRole(p)
    \/ VaultRereadRoleId(p)
    \/ VaultGenerateSecretId(p)
    \/ VaultLogin(p)
    \/ VaultRequestFails(p)

KVStep(p) ==
    \/ VaultReadSecret(p)
    \/ VaultWriteSecret(p)
    \/ VaultRequestFails(p)

\* Policy upserts of both backends, one invocation at a time.
PolicyNext ==
    \/ \E name \in Names, rules \in RuleBodies :
          Started < MaxCalls /\ Call_Consul_create_policy(1, name, rules)
    \/ \E name \in VaultPolicyNames, rules \in RuleBodies :
          Started < MaxCalls /\ Call_Vault_create_policy(1, name, rules)
    \/ ConsulGetPolicies(1)
    \/ ConsulPutPolicy(1)
    \/ ConsulRequestFails(1)
    \/ VaultPutPolicy(1)
    \/ VaultPutPolicyFails(1)

SpecPolicy == Init /\ [][PolicyNext]_vars

\* Sequential use of the Backend-B client: one invocation at a time.
ConsulNext ==
    \/ \E name \in Names, rules \in RuleBodies :
          Started < MaxCalls /\ Call_Consul_create_policy(1, name, rules)
    \/ \E ids \in PolicyIdLists, d \in Names :
          Started < MaxCalls /\ Call_Consul_create_token(1, ids, d)
    \/ \E g \in Names, ns \in Namespaces :
          Started < MaxCalls /\ Call_generate_consul_secret(1, g, ns)
    \/ ConsulStep(1)

SpecConsul == Init /\ [][ConsulNext]_vars

\* Sequential use of the Backend-A client's identity methods.
VaultNext ==
    \/ \E name \in VaultPolicyNames, rules \in RuleBodies :
          Started < MaxCalls /\ Call_Vault_create_policy(1, name, rules)
    \/ \E r \in VaultRoleNames, pn \in VaultPolicyNames :
          Started < MaxCalls /\ Call_Vault_create_or_get_role_id(1, r, pn)
    \/ \E g \in {"payments"}, e \in Environments, ns \in Namespaces :
          Started < MaxCalls /\ Call_generate_vault_secret(1, g, e, ns)
    \/ VaultStep(1)

SpecVault == Init /\ [][VaultNext]_vars

\* Sequential writes to the KV store.
KVNext ==
    \/ \E m \in MountPoints, sp \in SecretPaths, k \in SecretKeys, v \in SecretValues :
          Started < MaxCalls /\ Call_write_secret_to_vault(1, m, sp, k, v)
    \/ KVStep(1)

SpecKV == Init /\ [][KVNext]_vars

\* Two invocations of write_secret_to_vault whose requests interleave.
KVRaceNext ==
    \/ \E p \in ProcIds, m \in MountPoints, sp \in SecretPaths, k \in SecretKeys,
          v \in SecretValues :
          Started < MaxRaceCalls /\ Call_write_secret_to_vault(p, m, sp, k, v)
    \/ \E p \in ProcIds : KVStep(p)

SpecKVRace == Init /\ [][KVRaceNext]_vars

\* Two invocations of generate_consul_secret whose requests interleave.
ConsulRaceNext ==
    \/ \E p \in ProcIds, g \in Names, ns \in Namespaces :
          Started < MaxRaceCalls /\ Call_generate_consul_secret(p, g, ns)
    \/ \E p \in ProcIds : ConsulStep(p)

SpecConsulRace == Init /\ [][ConsulRaceNext]_vars

\* The requests of _create_or_get_role_id.
RoleStep(p) ==
    \/ VaultReadRoleId(p)
    \/ VaultCreateRole(p)
    \/ VaultRereadRoleId(p)
    \/ VaultRequestFails(p)

\* The three lookup-or-create methods that find a record by its name or its
\* description, one invocation at a time.
KeysNext ==
    \/ \E r \in {"payments_dev_role"}, pn \in VaultPolicyNames :
          Started < MaxCalls /\ Call_Vault_create_or_get_role_id(1, r, pn)
    \/ \E name \in {"payments"}, rules \in RuleBodies :
          Started < MaxCalls /\ Call_Consul_create_policy(1, name, rules)
    \/ \E ids \in PolicyIdLists, d \in {"payments"} :
          Started < MaxCalls /\ Call_Consul_create_token(1, ids, d)
    \/ RoleStep(1)
    \/ ConsulStep(1)

SpecKeys == Init /\ [][KeysNext]_vars

\* generate_consul_secret and generate_vault_secret, one invocation at a
\* time.
IdentityNext ==
    \/ \E g \in {"payments"}, ns \in Namespaces :
          Started < MaxIdentityCalls /\ Call_generate_consul_secret(1, g, ns)
    \/ \E g \in {"payments"}, e \in Environments, ns \in Namespaces :
          Started < MaxIdentityCalls /\ Call_generate_vault_secret(1, g, e, ns)
    \/ ConsulStep(1)
    \/ VaultStep(1)

SpecIdentity == Init /\ [][IdentityNext]_vars

\* The configurations of the rendering specification: two environments that
\* differ in CI_SUBGROUP_NAME and in CI_BRANCHING_TYPE.
RenderConfigs ==
    {[UnsetConf EXCEPT !.CI_SUBGROUP_NAME = Some("payments"),
                       !.CI_PROJECT_MODE = Some("SINGLE")],
     [UnsetConf EXCEPT !.CI_SUBGROUP_NAME = Some("billing"),
                       !.CI_BRANCHING_TYPE = Some("gitflow"),
                       !.CI_PROJECT_MODE = Some("SINGLE")]}

\* The argument lists of generate_argocd_application_yaml that are tried.
ApplicationArgs ==
    {<<"gitlab.local", g, e, "svc", "develop", "development/chart", "svc", "payments-ns">> :
        g \in {"payments"}, e \in Environments}

\* Byte strings for the registry credentials: "gl", "u", "p", "q".
DockerServers == {<<103, 108>>}
DockerUsers == {<<117>>}
DockerPasswords == {<<112>>, <<113>>}
RawIds == {<<114, 49>>, <<120, 49>>}

\* The static methods of TemplateGenerator, called in processes that are
\* started in different environments.
RenderNext ==
    \/ \E conf \in RenderConfigs : StartProcess(conf)
    \/ \E g \in Names, ns \in Namespaces :
          Started < MaxRenders /\ Call_generate_argocd_app_project_yaml(1, g, ns)
    \/ \E a \in ApplicationArgs :
          Started < MaxRenders /\ Call_generate_argocd_application_yaml(1, a)
    \/ \E ns \in Namespaces :
          Started < MaxRenders /\ Call_generate_k8s_namespace_yaml(1, ns)
    \/ Started < MaxRenders /\ Call_generate_gitlab_ci_yaml(1)
    \/ \E ds \in DockerServers, u \in DockerUsers, pw \in DockerPasswords,
          ns \in Namespaces :
          Started < MaxRenders /\ Call_generate_k8s_regcred(1, ds, u, pw, ns)
    \/ \E g \in Names, ns \in Namespaces, sid \in RawIds :
          Started < MaxRenders /\ Call_generate_consul_k8s_secret(1, g, ns, sid)
    \/ \E g \in {"payments"}, ns \in Namespaces, rid \in RawIds, sid \in {<<120, 49>>} :
          Started < MaxRenders /\ Call_generate_vault_k8s_secret(1, g, ns, rid, sid)
    \/ \E g \in {"payments"}, e \in Environments :
          Started < MaxRenders /\ Call_generate_vault_policy_json(1, g, e)

SpecRender == Init /\ [][RenderNext]_vars

\* The requests of create_project_code and create_project_chart.
GitlabStep(p) ==
    \/ CreateSubgroup(p)
    \/ GetParentGroup(p)
    \/ ListSubgroups(p)
    \/ CreateProject(p)
    \/ ProtectBranch(p)
    \/ CreateBranch(p)
    \/ ListUsers(p)
    \/ CreateMember(p)
    \/ \E e \in {"GitlabCreateError", "GitlabError"} : GitlabRequestFails(p, e)

\* The texts of CI_ACCESS_MAINTAINER and CI_ACCESS_DEVELOPER, as words and
\* blanks; "ghost" is no user of the server.
MaintainerTexts == {None, Some(<<"ghost", " ", " ", "alice">>)}
DeveloperTexts == {None, Some(<<"ghost", " ", "bob">>), Some(<<"alice", " ", "bob">>)}

ProjectConfigs ==
    {[UnsetConf EXCEPT !.CI_SUBGROUP_NAME = Some("payments"),
                       !.CI_PROJECT_NAME = Some("svc"),
                       !.CI_PROJECT_MODE = Some("SINGLE"),
                       !.CI_ACCESS_MAINTAINER = m,
                       !.CI_ACCESS_DEVELOPER = d] :
        m \in MaintainerTexts, d \in DeveloperTexts}

InitProject == \E conf \in ProjectConfigs : InitWith(conf)

\* The two project methods, called one at a time; the program is started
\* again, in the same environment, after a process has exited (the manager
\* keeps nothing between two calls, so that calls of one process and calls
\* of two processes meet the same server).
ProjectNext ==
    \/ \E conf \in {GitlabEnvConf} : process.exited /\ StartProcess(conf)
    \/ Started < MaxProjectCalls /\ Call_create_project_code(1)
    \/ Started < MaxProjectCalls /\ Call_create_project_chart(1)
    \/ GitlabStep(1)

SpecProject == InitProject /\ [][ProjectNext]_vars

\* The tokens connect is called with: none, tokens the server knows at the
\* start, and one it never knew.
TokenInputs == {None, Some("glpat-1"), Some("glpat-2"), Some("glpat-0")}

AuthNext ==
    \/ \E token \in TokenInputs :
          Started < MaxAuthCalls /\ Call_GitlabAuth_connect(1, token)
    \/ GitlabSessionAuth(1)
    \/ GitlabSessionVersion(1)
    \/ GitlabAuthRequestFails(1)
    \/ \E token \in GitlabTokens : RevokeToken(token)

SpecAuth == Init /\ [][AuthNext]_vars

\* create_global_variable in environments that name no cluster type, one
\* or several, on a provisioning project with and without CI variables.
ClusterTypeTexts ==
    {None, Some(<<>>), Some(<<"dev">>), Some(<<"dev", " ", "|", " ", "prod">>),
     Some(<<"devdmz", "|", "proddmz">>), Some(<<"prod", "|", "dev">>)}

GlobalConfigs ==
    {[UnsetConf EXCEPT !.CI_SUBGROUP_NAME = Some("payments"),
                       !.CD_HELM_NAMESPACE = Some(<<"payments", "-", "ns">>),
                       !.CD_CLUSTER_TYPE = t] : t \in ClusterTypeTexts}

VariableLists == {<<>>, <<"payments_ns">>}

InitGlobal ==
    \E conf \in GlobalConfigs, variables \in VariableLists :
        InitServer(conf, [EmptyGitlab EXCEPT !.variables = variables], NoClones)

GlobalNext ==
    \/ Started < MaxGlobalCalls /\ Call_create_global_variable(1)
    \/ GetProvisioningProject(1)
    \/ ListVariables(1)
    \/ GlobalRequestFails(1)

SpecGlobal == InitGlobal /\ [][GlobalNext]_vars

\* The three push methods, one at a time, on clones that have all branches
\* or lack the production ones, that hold the template or already the
\* configured files, or that were never made.
PushConfigs ==
    {[UnsetConf EXCEPT !.CI_SUBGROUP_NAME = Some("payments"),
                       !.CI_PROJECT_NAME = Some("svc"),
                       !.CD_HELM_NAMESPACE = Some(<<"payments", "-", "ns">>),
                       !.CD_CLUSTER_TYPE = t] :
        t \in {None, Some(<<"dev", "|", "prod">>), Some(<<"devdmz", " ", "|", "stage">>)}}

AllBranches == {"develop", "master", "dev", "devdmz", "prod", "stage"}

CloneStates ==
    {NoClones} \cup
    {[kind \in {"code", "chart", "provisioning"} |-> FreshClone(branches, content)] :
        branches \in {AllBranches, AllBranches \ {"master", "prod", "stage"}},
        content \in {"template", "configured"}}

InitPush ==
    \E conf \in PushConfigs, clones \in CloneStates : InitServer(conf, EmptyGitlab, clones)

PushNext ==
    \/ Started < MaxPushCalls /\ Call_push_to_code(1)
    \/ Started < MaxPushCalls /\ Call_push_to_chart(1)
    \/ Started < MaxPushCalls /\ Call_push_to_devops_project_provisioning(1)
    \/ OpenRepo(1)
    \/ OpenRepoFails(1)
    \/ Fetch(1)
    \/ FetchFails(1)
    \/ Checkout(1)
    \/ Configure(1)
    \/ ConfigureFails(1)
    \/ Add(1)
    \/ Commit(1)
    \/ Push(1)
    \/ GitCommandFails(1)

SpecPush == InitPush /\ [][PushNext]_vars

\* ------------------------------------------------------------- claims
\* Helpers over the record of a completed invocation.
Returned(h, op) == h.op = op /\ h.ret.kind = "ok"
CountReq(h, name) == Cardinality({k \in 1..Len(h.sent) : h.sent[k].req = name})
PoliciesNamed(policies, name) == {k \in 1..Len(policies) : policies[k].Name = name}
TokensDescribed(tokens, d) == {k \in 1..Len(tokens) : tokens[k].Description = d}
Max(S) == CHOOSE m \in S : \A n \in S : m >= n

\* ---- C1
\* Two returned calls of ConsulManager._create_policy with one name, the first
\* from a backend that has no policy of that name.
C1_Pair(i, j) ==
    /\ i < j
    /\ Returned(hist[i], "Consul._create_policy")
    /\ Returned(hist[j], "Consul._create_policy")
    /\ hist[i].args.name = hist[j].args.name
    /\ PoliciesNamed(hist[i].pre.cp, hist[i].args.name) = {}

C2_Pair(i, j) ==
    /\ j = i + 1
    /\ Returned(hist[i], "Vault._create_policy")
    /\ Returned(hist[j], "Vault._create_policy")
    /\ hist[i].args.policy_name = hist[j].args.policy_name
    /\ ~hist[i].loc.policy_error
    /\ ~hist[j].loc.policy_error

\* C2 as claimed: after VaultManager._create_policy(name, r1) and then
\* _create_policy(name, r2) the stored body of name is the first call's r1.
C2_VaultPolicyKeepsFirstBody ==
    \A i, j \in 1..Len(hist) :
        C2_Pair(i, j) =>
            /\ hist[j].args.policy_name \in DOMAIN hist[j].post.vp
            /\ hist[j].post.vp[hist[j].args.policy_name] = hist[i].args.policy_rules

\* The last call among hist[i..j] of Vault._create_policy for the name whose
\* request succeeded.
LastStored(i, j, name) ==
    Max({k \in i..j : /\ hist[k].op = "Vault._create_policy"
                      /\ hist[k].args.policy_name = name
                      /\ ~hist[k].loc.policy_error})

\* C2 amended: after _create_policy(name, r1) and then _create_policy(name, r2)
\* one policy is stored under name and its body is the body of the latest call
\* whose request succeeded: r2 when the second request succeeds (r1 is
\* overwritten), r1 only when the second request fails.
C2_VaultPolicyKeepsLatestBody ==
    \A i, j \in 1..Len(hist) :
        (/\ i < j
         /\ Returned(hist[i], "Vault._create_policy")
         /\ Returned(hist[j], "Vault._create_policy")
         /\ hist[i].args.policy_name = hist[j].args.policy_name
         /\ ~hist[i].loc.policy_error) =>
            LET name == hist[j].args.policy_name
            IN  /\ name \in DOMAIN hist[j].post.vp
                /\ hist[j].post.vp[name] = hist[LastStored(i, j, name)].args.policy_rules
                /\ ~hist[j].loc.policy_error =>
                       hist[j].post.vp[name] = hist[j].args.policy_rules

\* C2 witness: two successful calls with one name and different bodies.
C2_Witness ==
    \E i, j \in 1..Len(hist) :
        C2_Pair(i, j) /\ hist[i].args.policy_rules # hist[j].args.policy_rules

\* ---- C3
\* C3: every call of VaultManager._create_policy(name, rules) sends exactly
\* one create-or-update request, with the name and the rule document as
\* given and no lookup before it, and returns None; when the request succeeds
\* the stored body of name is rules, whatever was stored before, and when it
\* fails the store is as before.  Every call of ConsulManager._create_policy
\* starts with the lookup of the listed policies.
C3_VaultPolicyUpsertUnconditional ==
    \A i \in 1..Len(hist) :
        /\ hist[i].op = "Vault._create_policy" =>
              /\ Len(hist[i].sent) = 1
              /\ hist[i].sent[1].req = "PUT sys/policy"
              /\ hist[i].sent[1].body =
                     [name |-> hist[i].args.policy_name,
                      policy |-> hist[i].args.policy_rules]
              /\ hist[i].ret = Ok(None)
              /\ IF hist[i].loc.policy_error
                 THEN hist[i].post.vp = hist[i].pre.vp
                 ELSE hist[i].post.vp =
                          Put(hist[i].pre.vp, hist[i].args.policy_name,
                              hist[i].args.policy_rules)
        /\ hist[i].op = "Consul._create_policy" =>
              hist[i].sent[1].req = "GET /v1/acl/policies"

\* C3 witness: a successful call on a name that had another body stored.
C3_Witness ==
    \E i \in 1..Len(hist) :
        /\ hist[i].op = "Vault._create_policy"
        /\ ~hist[i].loc.policy_error
        /\ hist[i].args.policy_name \in DOMAIN hist[i].pre.vp
        /\ hist[i].pre.vp[hist[i].args.policy_name] # hist[i].args.policy_rules
        /\ hist[i].post.vp[hist[i].args.policy_name] = hist[i].args.policy_rules

\* ---- C4
\* Two returned calls of _create_or_get_role_id with one role name, the first
\* from a backend that has no role of that name.
C4_Pair(i, j) ==
    /\ i < j
    /\ Returned(hist[i], "Vault._create_or_get_role_id")
    /\ Returned(hist[j], "Vault._create_or_get_role_id")
    /\ hist[i].args.role_name = hist[j].args.role_name
    /\ hist[i].args.role_name \notin DOMAIN hist[i].pre.vr

\* C4: the first call of _create_or_get_role_id for a role the backend does
\* not have sends one create request and returns the id of the created role;
\* every later call with that role name returns the same id, sends no create
\* request and leaves the roles of the backend as they were.
C4_GetOrCreateRoleIdempotent ==
    \A i, j \in 1..Len(hist) :
        C4_Pair(i, j) =>
            LET role == hist[i].args.role_name
            IN  /\ CountReq(hist[i], "POST role") = 1
                /\ DOMAIN hist[i].post.vr = DOMAIN hist[i].pre.vr \cup {role}
                /\ hist[i].ret.val = hist[i].post.vr[role].role_id
                /\ hist[j].ret.val = hist[i].ret.val
                /\ CountReq(hist[j], "POST role") = 0
                /\ hist[j].post.vr = hist[j].pre.vr
                /\ \A r \in DOMAIN hist[j].post.vr \ {role} :
                      hist[j].post.vr[r].role_id # hist[j].ret.val

\* C4 witness: such a pair of calls (the second naming another policy).
C4_Witness ==
    \E i, j \in 1..Len(hist) :
        C4_Pair(i, j) /\ hist[i].args.policy_name # hist[j].args.policy_name

\* ---- C5
\* The path of the KV store a call of write_secret_to_vault addresses, and the
\* map stored there in a recorded state of the backends (empty if none).
PathOf(h) == KVPath(h.args.mount_point, h.args.secret_path)
MapAt(kv, path) == IF path \in DOMAIN kv THEN kv[path] ELSE EmptyMap

\* Two returned calls of write_secret_to_vault on one path with no returned
\* write to that path between them.
C5_Pair(i, j) ==
    /\ i < j
    /\ Returned(hist[i], "write_secret_to_vault")
    /\ Returned(hist[j], "write_secret_to_vault")
    /\ PathOf(hist[i]) = PathOf(hist[j])
    /\ \A k \in (i + 1)..(j - 1) :
          ~(Returned(hist[k], "write_secret_to_vault") /\ PathOf(hist[k]) = PathOf(hist[i]))

\* C5: after two sequential writes to one path, of keys A # B, the stored map
\* holds A with the first value and B with the second, and it is the map that
\* the two writes made in the other order leave; after two writes of one key
\* the map holds that key once, with the second value, and no key more than
\* the map before the first write and that key.
C5_WriteMergeSequential ==
    \A i, j \in 1..Len(hist) :
        C5_Pair(i, j) =>
            LET path == PathOf(hist[i])
                before == MapAt(hist[i].pre.kv, path)
                after == MapAt(hist[j].post.kv, path)
                A == hist[i].args.secret_key
                a == hist[i].args.secret_value
                B == hist[j].args.secret_key
                b == hist[j].args.secret_value
            IN  /\ DOMAIN after = DOMAIN before \cup {A, B}
                /\ after[B] = b
                /\ A # B => /\ after[A] = a
                            /\ after = Put(Put(before, B, b), A, a)
                /\ A = B => after = Put(before, A, b)

\* C5 witness: a run with two such writes of different keys and two such
\* writes of one key with different values.
C5_Witness ==
    /\ \E i, j \in 1..Len(hist) :
          C5_Pair(i, j) /\ hist[i].args.secret_key # hist[j].args.secret_key
    /\ \E i, j \in 1..Len(hist) :
          /\ C5_Pair(i, j)
          /\ hist[i].args.secret_key = hist[j].args.secret_key
          /\ hist[i].args.secret_value # hist[j].args.secret_value

\* ---- C6
\* C6: a call of write_secret_to_vault whose read finds nothing at the path
\* writes back exactly {key: value}; a call whose read finds a map leaves
\* every other key of that map in place with its value; either leaves every
\* other path as it was; a call whose read fails otherwise raises, sends no
\* write and leaves the store as it was.
C6_WriteFrame ==
    \A i \in 1..Len(hist) :
        hist[i].op = "write_secret_to_vault" =>
            LET h == hist[i]
                path == PathOf(h)
                key == h.args.secret_key
            IN  /\ (h.ret.kind = "ok" /\ path \notin DOMAIN h.pre.kv) =>
                      /\ h.sent[2].req = "PUT secret"
                      /\ h.sent[2].body.secret = (key :> h.args.secret_value)
                      /\ h.post.kv[path] = (key :> h.args.secret_value)
                /\ (h.ret.kind = "ok" /\ path \in DOMAIN h.pre.kv) =>
                      \A k \in DOMAIN h.pre.kv[path] \ {key} :
                          /\ k \in DOMAIN h.post.kv[path]
                          /\ h.post.kv[path][k] = h.pre.kv[path][k]
                /\ h.ret.kind = "ok" =>
                      \A q \in DOMAIN h.pre.kv \ {path} :
                          q \in DOMAIN h.post.kv /\ h.post.kv[q] = h.pre.kv[q]
                /\ (h.ret.kind = "raised" /\ Len(h.sent) = 1) =>
                      /\ h.sent[1].req = "GET secret"
                      /\ h.post.kv = h.pre.kv

\* C6 witness: a run with a returned write to a path that held another key,
\* a returned write to a path that held nothing, and a write whose read failed.
C6_Witness ==
    /\ \E i \in 1..Len(hist) :
          /\ Returned(hist[i], "write_secret_to_vault")
          /\ PathOf(hist[i]) \in DOMAIN hist[i].pre.kv
          /\ DOMAIN hist[i].pre.kv[PathOf(hist[i])] \ {hist[i].args.secret_key} # {}
    /\ \E i \in 1..Len(hist) :
          /\ Returned(hist[i], "write_secret_to_vault")
          /\ PathOf(hist[i]) \notin DOMAIN hist[i].pre.kv
    /\ \E i \in 1..Len(hist) :
          /\ hist[i].op = "write_secret_to_vault"
          /\ hist[i].ret.kind = "raised"
          /\ Len(hist[i].sent) = 1

\* ---- C7
\* Two returned calls of write_secret_to_vault on one path with different
\* keys, where the later writer had read the path before the earlier wrote.
C7_Interleaved(i, j) ==
    /\ i < j
    /\ Returned(hist[i], "write_secret_to_vault")
    /\ Returned(hist[j], "write_secret_to_vault")
    /\ PathOf(hist[i]) = PathOf(hist[j])
    /\ hist[i].args.secret_key # hist[j].args.secret_key
    /\ hist[i].args.secret_key \notin DOMAIN hist[j].loc.existing_data[1]

\* C7: a write stores the map its invocation read, with its own key set,
\* whatever was written to the path since that read; so when two invocations
\* with different keys interleave, the later writer having read before the
\* earlier wrote, the key the earlier writer stored is not in the map the
\* later writer leaves.
C7_LostUpdate ==
    \A i, j \in 1..Len(hist) :
        /\ Returned(hist[j], "write_secret_to_vault") =>
              hist[j].post.kv[PathOf(hist[j])] =
                  Put(hist[j].loc.existing_data[1], hist[j].args.secret_key,
                      hist[j].args.secret_value)
        /\ C7_Interleaved(i, j) =>
              /\ hist[i].args.secret_key \in DOMAIN hist[i].post.kv[PathOf(hist[i])]
              /\ hist[i].args.secret_key \notin DOMAIN hist[j].post.kv[PathOf(hist[j])]

\* C7 witness: both invocations have returned and the stored map holds only
\* the key of one of them.
C7_Witness ==
    /\ Len(hist) = 2
    /\ C7_Interleaved(1, 2)
    /\ \A p \in ProcIds : pc[p] = "idle"
    /\ DOMAIN vaultKV[PathOf(hist[2])] = {hist[2].args.secret_key}

\* ---- C8
\* C8: a returned call of ConsulManager._create_token(policies, d) on a
\* backend that stores a token described d returns the first such token as
\* stored, sends no create request and leaves the tokens as they were,
\* whatever policy ids it was given; on a backend without such a token it
\* sends one create request and the backend has one token more, described d
\* and bound to exactly the given policy ids, which the call returns.  In
\* sequential use no description is that of two stored tokens.
C8_TokenUpsertByDescription ==
    /\ \A d \in Names : Cardinality(TokensDescribed(consulTokens, d)) <= 1
    /\ \A i \in 1..Len(hist) :
          Returned(hist[i], "Consul._create_token") =>
              LET h == hist[i]
                  d == h.args.description
                  found == TokensDescribed(h.pre.ct, d)
                  ids == IF h.args.policies = None THEN <<>> ELSE h.args.policies[1]
              IN  IF found # {}
                  THEN /\ h.ret.val = h.pre.ct[Min(found)]
                       /\ CountReq(h, "PUT /v1/acl/token") = 0
                       /\ h.post.ct = h.pre.ct
                  ELSE /\ CountReq(h, "PUT /v1/acl/token") = 1
                       /\ Len(h.post.ct) = Len(h.pre.ct) + 1
                       /\ SubSeq(h.post.ct, 1, Len(h.pre.ct)) = h.pre.ct
                       /\ h.ret.val = h.post.ct[Len(h.post.ct)]
                       /\ h.ret.val.Description = d
                       /\ h.ret.val.Policies = [k \in 1..Len(ids) |-> [ID |-> ids[k]]]

\* C8 witness: a returned call that found a token of its description bound to
\* other policy ids than the ones it was given, after a call that created one.
C8_Witness ==
    \E i, j \in 1..Len(hist) :
        /\ i < j
        /\ Returned(hist[i], "Consul._create_token")
        /\ Returned(hist[j], "Consul._create_token")
        /\ hist[i].args.description = hist[j].args.description
        /\ hist[i].args.policies # hist[j].args.policies
        /\ CountReq(hist[i], "PUT /v1/acl/token") = 1
        /\ hist[j].ret.val = hist[i].ret.val

\* ---- C9
\* Two returned calls of generate_consul_secret for one group that both sent
\* their token create: both looked the token up before either created it.
C9_BothCreated(i, j) ==
    /\ i < j
    /\ Returned(hist[i], "generate_consul_secret")
    /\ Returned(hist[j], "generate_consul_secret")
    /\ hist[i].args.group_name = hist[j].args.group_name
    /\ CountReq(hist[i], "PUT /v1/acl/token") = 1
    /\ CountReq(hist[j], "PUT /v1/acl/token") = 1

\* The value of the data field of a rendered Secret manifest.
DataField(doc, field) ==
    LET k == CHOOSE k \in 1..Len(doc) : doc[k].path = <<"data", field>>
    IN  doc[k].value

\* C9: when two invocations of generate_consul_secret for one group both run
\* their token lookup before either runs its create, both create a token:
\* two tokens with the group's description are stored and the two invocations
\* return different token secrets; likewise two policies of the group's name
\* are stored when both ran the policy lookup before either policy create.
C9_CheckThenActRace ==
    \A i, j \in 1..Len(hist) :
        C9_BothCreated(i, j) =>
            LET g == hist[i].args.group_name
            IN  /\ Cardinality(TokensDescribed(hist[j].post.ct, g)) >= 2
                /\ DataField(hist[i].ret.val, "CONSUL_TOKEN")
                       # DataField(hist[j].ret.val, "CONSUL_TOKEN")
                /\ hist[i].loc.token_response[1].SecretID
                       # hist[j].loc.token_response[1].SecretID
                /\ (/\ CountReq(hist[i], "PUT /v1/acl/policy") = 1
                    /\ CountReq(hist[j], "PUT /v1/acl/policy") = 1) =>
                       Cardinality(PoliciesNamed(hist[j].post.cp, g)) >= 2

\* C9 witness: both invocations have returned, two tokens of the group's
\* description are stored, and the returned token secrets differ.
C9_Witness ==
    /\ Len(hist) = 2
    /\ \A p \in ProcIds : pc[p] = "idle"
    /\ C9_BothCreated(1, 2)
    /\ Cardinality(TokensDescribed(consulTokens, hist[1].args.group_name)) = 2
    /\ DataField(hist[1].ret.val, "CONSUL_TOKEN") # DataField(hist[2].ret.val, "CONSUL_TOKEN")

\* ---- C10
\* base64 decoding, the inverse of the alphabet and of the grouping.
B64Val(c) ==
    IF c >= 65 /\ c <= 90 THEN c - 65
    ELSE IF c >= 97 /\ c <= 122 THEN c - 97 + 26
    ELSE IF c >= 48 /\ c <= 57 THEN c - 48 + 52
    ELSE IF c = 43 THEN 62 ELSE 63

RECURSIVE b64decode(_)
b64decode(chars) ==
    IF Len(chars) < 4 THEN <<>>
    ELSE LET v1 == B64Val(chars[1])
             v2 == B64Val(chars[2])
             v3 == B64Val(chars[3])
             v4 == B64Val(chars[4])
             b1 == v1 * 4 + v2 \div 16
             b2 == (v2 % 16) * 16 + v3 \div 4
             b3 == (v3 % 4) * 64 + v4
         IN  IF chars[3] = 61 THEN <<b1>>
             ELSE IF chars[4] = 61 THEN <<b1, b2>>
             ELSE <<b1, b2, b3>> \o b64decode(SubSeq(chars, 5, Len(chars)))

\* The rule text and the manifest name the claim gives for each group.
C10_Rules(g) ==
    CASE g = "payments" -> "key_prefix \"payments/\" { policy = \"write\" }"
      [] g = "billing" -> "key_prefix \"billing/\" { policy = \"write\" }"
C10_Name(g) ==
    CASE g = "payments" -> "consul-payments"
      [] g = "billing" -> "consul-billing"

ValueAt(doc, path) ==
    LET k == CHOOSE k \in 1..Len(doc) : doc[k].path = path
    IN  doc[k].value

\* C10: a returned generate_consul_secret(group, namespace) sends every
\* policy request before every token request; on an empty backend it creates
\* the policy named group with the rule text key_prefix "<group>/" { policy =
\* "write" }, then the token described group and bound to the ID of that
\* policy only, and returns the manifest named consul-<group> in the
\* namespace whose only data field is CONSUL_TOKEN, carrying (base64) the
\* SecretID of that token.
C10_GenerateConsulSecret ==
    \A i \in 1..Len(hist) :
        Returned(hist[i], "generate_consul_secret") =>
            LET h == hist[i]
                g == h.args.group_name
                doc == h.ret.val
                policyReqs == {k \in 1..Len(h.sent) :
                    h.sent[k].req \in {"GET /v1/acl/policies", "PUT /v1/acl/policy"}}
                tokenReqs == {k \in 1..Len(h.sent) :
                    h.sent[k].req \in {"GET /v1/acl/tokens", "PUT /v1/acl/token"}}
            IN  /\ policyReqs # {}
                /\ \A a \in policyReqs, b \in tokenReqs : a < b
                /\ (h.pre.cp = <<>> /\ h.pre.ct = <<>>) =>
                      /\ Len(h.sent) = 4
                      /\ h.sent[2] = Req("PUT /v1/acl/policy",
                                         [Name |-> g, Rules |-> C10_Rules(g)])
                      /\ Len(h.post.cp) = 1
                      /\ h.post.cp[1].Name = g
                      /\ h.post.cp[1].Rules = C10_Rules(g)
                      /\ h.sent[4] = Req("PUT /v1/acl/token",
                                         [Description |-> g,
                                          Policies |-> <<[ID |-> h.post.cp[1].ID]>>])
                      /\ Len(h.post.ct) = 1
                      /\ h.post.ct[1].Description = g
                      /\ h.post.ct[1].Policies = <<[ID |-> h.post.cp[1].ID]>>
                      /\ ValueAt(doc, <<"kind">>) = "Secret"
                      /\ ValueAt(doc, <<"metadata", "name">>) = C10_Name(g)
                      /\ ValueAt(doc, <<"metadata", "namespace">>) = h.args.namespace
                      /\ {doc[k].path : k \in {k \in 1..Len(doc) : doc[k].path[1] = "data"}}
                             = {<<"data", "CONSUL_TOKEN">>}
                      /\ b64decode(ValueAt(doc, <<"data", "CONSUL_TOKEN">>))
                             = h.post.ct[1].SecretID

\* C10 witness: a returned call on an empty backend.
C10_Witness ==
    \E i \in 1..Len(hist) :
        /\ Returned(hist[i], "generate_consul_secret")
        /\ hist[i].pre.cp = <<>>
        /\ hist[i].pre.ct = <<>>
        /\ Len(hist[i].post.ct) = 1

\* ---- C11
\* C11: every call of _create_or_get_role_id(role, policy) starts with the
\* role-id read.  It sends a role-create request if and only if that read
\* signalled "path not found" (the backend had no such role and the read did
\* not fail otherwise); the create binds the role to exactly <<policy>> and is
\* followed by the re-read, whose id the call returns.  When the read fails
\* otherwise the call raises with no role created, and when the create or the
\* re-read fails the call raises too.
C11_CreateOnlyOnPathNotFound ==
    \A i \in 1..Len(hist) :
        hist[i].op = "Vault._create_or_get_role_id" =>
            LET h == hist[i]
                role == h.args.role_name
                pathNotFound == role \notin DOMAIN h.pre.vr
                               /\ ~(Len(h.sent) = 1 /\ h.ret.kind = "raised")
            IN  /\ h.sent[1].req = "GET role-id"
                /\ CountReq(h, "POST role") = (IF pathNotFound THEN 1 ELSE 0)
                /\ pathNotFound => h.sent[2].req = "POST role"
                /\ (pathNotFound /\ h.ret.kind = "ok") =>
                      /\ Len(h.sent) = 3
                      /\ h.sent[2].body =
                             [role_name |-> role, token_policies |-> <<h.args.policy_name>>,
                              token_type |-> "service"]
                      /\ h.sent[3] = Req("GET role-id", role)
                      /\ h.post.vr[role].token_policies = <<h.args.policy_name>>
                      /\ h.ret.val = h.post.vr[role].role_id
                /\ ~pathNotFound => h.post.vr = h.pre.vr
                /\ (h.ret.kind = "raised" /\ Len(h.sent) = 1) =>
                      /\ h.ret.val = "VaultError"
                      /\ h.post.vr = h.pre.vr
                /\ (Len(h.sent) = 2 \/ (Len(h.sent) = 3 /\ h.ret.kind = "raised")) =>
                      /\ h.ret.kind = "raised"
                      /\ Len(h.sent) = 2 => h.post.vr = h.pre.vr

\* C11 witness: a run in which one call created the role after "path not
\* found" and re-read its id, and another call raised on a read that failed
\* otherwise while the backend had no such role.
C11_Witness ==
    /\ \E i \in 1..Len(hist) :
          /\ Returned(hist[i], "Vault._create_or_get_role_id")
          /\ Len(hist[i].sent) = 3
    /\ \E i \in 1..Len(hist) :
          /\ hist[i].op = "Vault._create_or_get_role_id"
          /\ hist[i].ret.kind = "raised"
          /\ Len(hist[i].sent) = 1
          /\ hist[i].args.role_name \notin DOMAIN hist[i].pre.vr

RoleOf(h) == h.args.group_name \o "_" \o h.args.environment_name \o "_role"
SecretIdsOf(vs, role) == {k \in 1..Len(vs) : vs[k].role_name = role}

\* C13 as claimed: over the calls of generate_vault_secret and
\* generate_consul_secret for one group and environment, the role, the token
\* and the secret id are each created at most once, and the secret value a
\* call returns comes from the creation response of that call, not from a
\* read of the backend.
C13_IdentityCreatedOnce ==
    /\ \A d \in Names : Cardinality(TokensDescribed(consulTokens, d)) <= 1
    /\ \A r \in VaultRoleNames : Cardinality(SecretIdsOf(vaultSecretIds, r)) <= 1
    /\ \A i \in 1..Len(hist) :
          /\ hist[i].op = "generate_vault_secret" =>
                (RoleOf(hist[i]) \in DOMAIN hist[i].pre.vr =>
                    CountReq(hist[i], "POST role") = 0)
          /\ Returned(hist[i], "generate_consul_secret") =>
                CountReq(hist[i], "PUT /v1/acl/token") = 1

\* C13 amended: in sequential use the role of a (group, environment) pair and
\* the token of a group are each created at most once, but the secret id is
\* not: every returned generate_vault_secret issues one new secret id for the
\* role, different from every secret id issued before, and uses the one of
\* its own creation response; a call that finds the role reads the role id
\* back from the backend, and a returned generate_consul_secret that finds the
\* token reads its SecretID back from the token listing and returns the same
\* manifest value as the call that created it.
C13_RoleAndTokenOnceSecretIdPerCall ==
    /\ \A d \in Names : Cardinality(TokensDescribed(consulTokens, d)) <= 1
    /\ \A i \in 1..Len(hist) :
          LET h == hist[i]
          IN  /\ (h.op = "generate_vault_secret" /\ RoleOf(h) \in DOMAIN h.pre.vr) =>
                    /\ CountReq(h, "POST role") = 0
                    /\ h.post.vr = h.pre.vr
                    /\ h.loc.role_id # None => h.loc.role_id[1] = h.pre.vr[RoleOf(h)].role_id
              /\ Returned(h, "generate_vault_secret") =>
                    /\ CountReq(h, "POST secret-id") = 1
                    /\ Len(h.post.vs) = Len(h.pre.vs) + 1
                    /\ h.post.vs[Len(h.post.vs)] =
                           [role_name |-> RoleOf(h), secret_id |-> h.loc.secret_id[1]]
                    /\ \A k \in 1..Len(h.pre.vs) :
                          h.pre.vs[k].secret_id # h.loc.secret_id[1]
              /\ (Returned(h, "generate_consul_secret")
                     /\ TokensDescribed(h.pre.ct, h.args.group_name) # {}) =>
                    /\ CountReq(h, "PUT /v1/acl/token") = 0
                    /\ h.post.ct = h.pre.ct
                    /\ h.loc.token_response[1] =
                           h.pre.ct[Min(TokensDescribed(h.pre.ct, h.args.group_name))]
                    /\ \A j \in 1..(i - 1) :
                          (/\ Returned(hist[j], "generate_consul_secret")
                           /\ hist[j].args.group_name = h.args.group_name) =>
                              DataField(hist[j].ret.val, "CONSUL_TOKEN")
                                  = DataField(h.ret.val, "CONSUL_TOKEN")

\* C13 witness: a run with two returned generate_vault_secret calls for one
\* (group, environment) pair, after which two secret ids of its role are
\* stored, and two returned generate_consul_secret calls for one group, the
\* second of which sent no create.
C13_Witness ==
    /\ \E i, j \in 1..Len(hist) :
          /\ i < j
          /\ Returned(hist[i], "generate_vault_secret")
          /\ Returned(hist[j], "generate_vault_secret")
          /\ hist[i].args = hist[j].args
          /\ Cardinality(SecretIdsOf(vaultSecretIds, RoleOf(hist[j]))) = 2
          /\ hist[i].loc.secret_id # hist[j].loc.secret_id
    /\ \E i, j \in 1..Len(hist) :
          /\ i < j
          /\ Returned(hist[i], "generate_consul_secret")
          /\ Returned(hist[j], "generate_consul_secret")
          /\ hist[i].args = hist[j].args
          /\ CountReq(hist[i], "PUT /v1/acl/token") = 1
          /\ CountReq(hist[j], "PUT /v1/acl/token") = 0

\* ---- C15
\* C15: every data value of a returned Secret manifest is the base64
\* encoding, applied once, of the raw value: one decode of VAULT_ROLE_ID of
\* the manifest of generate_vault_secret gives the role id of the backend and
\* one decode of VAULT_SECRET_ID the secret id that was issued; one decode of
\* CONSUL_TOKEN of the manifest of generate_consul_secret gives the SecretID
\* of the token.
C15_DataValuesEncodedOnce ==
    \A i \in 1..Len(hist) :
        LET h == hist[i]
        IN  /\ Returned(h, "generate_vault_secret") =>
                  /\ b64decode(DataField(h.ret.val, "VAULT_ROLE_ID"))
                         = h.post.vr[RoleOf(h)].role_id
                  /\ b64decode(DataField(h.ret.val, "VAULT_SECRET_ID"))
                         = h.post.vs[Len(h.post.vs)].secret_id
            /\ Returned(h, "generate_consul_secret") =>
                  b64decode(DataField(h.ret.val, "CONSUL_TOKEN"))
                      = h.loc.token_response[1].SecretID

\* ---- C14
TemplateOps ==
    {"generate_argocd_app_project_yaml", "generate_argocd_application_yaml",
     "generate_k8s_namespace_yaml", "generate_gitlab_ci_yaml", "generate_k8s_regcred",
     "generate_consul_k8s_secret", "generate_vault_k8s_secret",
     "generate_vault_policy_json"}

ProjectOps == {"create_project_code", "create_project_chart"}

\* The bodies of the requests of one kind that an invocation sent, in order.
BodiesOf(h, name) ==
    LET ks == SelectSeq([k \in 1..Len(h.sent) |-> k], LAMBDA k : h.sent[k].req = name)
    IN  [n \in 1..Len(ks) |-> h.sent[ks[n]].body]

\* C16: in create_project_code and in create_project_chart the protection
\* rules are requested for the branches of the fixed list, in its order,
\* each with a merge access level strictly lower than its push access
\* level and with the same pair of levels as every other rule; the rules
\* the server stores are the same.
C16_MergeBelowPush ==
    /\ \A i \in 1..Len(hist) :
          hist[i].op \in ProjectOps =>
             LET rules == BodiesOf(hist[i], "protectedbranches.create")
             IN  /\ Len(rules) <= Len(GitlabEnvConf_branches)
                 /\ \A n \in 1..Len(rules) :
                       /\ rules[n].name = GitlabEnvConf_branches[n]
                       /\ rules[n].merge_access_level < rules[n].push_access_level
                       /\ rules[n].merge_access_level = rules[1].merge_access_level
                       /\ rules[n].push_access_level = rules[1].push_access_level
                 /\ (hist[i].loc.failed_branches = GitlabEnvConf_branches) =>
                       Len(rules) = Len(GitlabEnvConf_branches)
    /\ \A k, l \in 1..Len(gitlab.protectedbranches) :
          /\ gitlab.protectedbranches[k].merge_access_level
                 < gitlab.protectedbranches[k].push_access_level
          /\ gitlab.protectedbranches[k].merge_access_level
                 = gitlab.protectedbranches[l].merge_access_level
          /\ gitlab.protectedbranches[k].push_access_level
                 = gitlab.protectedbranches[l].push_access_level

\* C16 witness: the code project and the chart project were created, each
\* with a protection rule for develop and one for master.
C16_Witness ==
    /\ Len(gitlab.protectedbranches) = 4
    /\ \E i, j \in 1..Len(hist) :
          /\ hist[i].op = "create_project_code"
          /\ hist[j].op = "create_project_chart"
          /\ Len(BodiesOf(hist[i], "protectedbranches.create")) = 2
          /\ Len(BodiesOf(hist[j], "protectedbranches.create")) = 2

\* ---- C17
\* The other branch of the fixed list.
Sibling(branch_name) ==
    CHOOSE b \in {GitlabEnvConf_branches[n] : n \in 1..Len(GitlabEnvConf_branches)} :
        b # branch_name

\* C17 as claimed: each branch of the fixed list is requested with its
\* sibling of the list as ref (develop from master, master from develop),
\* and a refused branch creation does not end the method: the request that
\* follows it is the protection rule of the next branch or, after the last
\* branch, the first user lookup (or the return, with no user configured).
C17_BranchFromSibling ==
    \A i \in 1..Len(hist) :
        hist[i].op \in ProjectOps =>
           \A k \in 1..Len(hist[i].sent) :
               hist[i].sent[k].req = "branches.create" =>
                  /\ hist[i].sent[k].body.ref = Sibling(hist[i].sent[k].body.branch)
                  /\ (hist[i].sent[k].body.branch \in
                          {hist[i].loc.failed_branches[n] :
                              n \in 1..Len(hist[i].loc.failed_branches)}) =>
                        IF k = Len(hist[i].sent)
                        THEN hist[i].ret = Ok(None) /\ MemberQueue = <<>>
                        ELSE hist[i].sent[k + 1].req
                                = IF hist[i].sent[k].body.branch
                                        = GitlabEnvConf_branches[Len(GitlabEnvConf_branches)]
                                  THEN "users.list" ELSE "protectedbranches.create"

\* ---- C18
\* The ids of the configured user names that resolve to a user, maintainers
\* first, in the order of the two lists.
ResolvableIds ==
    LET q == SelectSeq(MemberQueue, LAMBDA m : m.username \in DOMAIN GitlabUsers)
    IN  [n \in 1..Len(q) |-> GitlabUsers[q[n].username]]

MembersOf(gl, project_id) ==
    {gl.members[k].user_id :
        k \in {n \in 1..Len(gl.members) : gl.members[n].project_id = project_id}}

HaltedAtCreation(h) ==
    /\ Len(BodiesOf(h, "projects.create")) = 1
    /\ h.sent[Len(h.sent)].req = "projects.create"
    /\ \A k \in 1..Len(h.sent) :
          h.sent[k].req \notin {"protectedbranches.create", "branches.create",
                                "users.list", "members.create"}
    /\ h.post.gl = h.pre.gl

\* C20 as claimed: an invocation whose project creation was refused with
\* 'has already been taken' sends no further request for that project
\* (no protection rule, no branch, no membership, no second creation),
\* leaves the subgroup as it is, and returns to its caller, so that the
\* steps of the run that follow it are carried out.
C20_HaltsOnlyThatProject ==
    \A i \in 1..Len(hist) :
        (hist[i].op \in ProjectOps /\ hist[i].loc.taken) =>
           /\ HaltedAtCreation(hist[i])
           /\ hist[i].ret.kind = "ok"

\* C20 amended: an invocation whose project creation was refused with
\* 'has already been taken' sends no further request for that project and
\* leaves the subgroup as it is, and it ends the process with SystemExit:
\* no method is invoked after it in the same run of the program, the steps
\* of other projects included.
C20_HaltsTheRun ==
    /\ \A i \in 1..Len(hist) :
          (hist[i].op \in ProjectOps /\ hist[i].loc.taken) =>
             /\ HaltedAtCreation(hist[i])
             /\ hist[i].ret = Raised("SystemExit")
             /\ \A j \in 1..Len(hist) :
                   j > i => hist[j].loc.run > hist[i].loc.run
             /\ \A p \in ProcIds :
                   (pc[p] # "idle" /\ call[p].op \in ProjectOps) =>
                       loc[p].run > hist[i].loc.run
    /\ process.exited =>
          /\ \A p \in ProcIds : pc[p] = "idle"
          /\ Len(hist) > 0
          /\ hist[Len(hist)].ret = Raised("SystemExit")

\* C20 witness: create_project_code was refused the name of the project
\* that an earlier invocation had created under the resolved subgroup, and
\* the process has exited.
C20_Witness ==
    /\ process.exited
    /\ \E i, j \in 1..Len(hist) :
          /\ i < j
          /\ hist[i].op = "create_project_code"
          /\ hist[i].loc.project # None
          /\ hist[j].op = "create_project_code"
          /\ hist[j].loc.taken
          /\ hist[j].loc.subgroup_child_id = Some(hist[i].loc.project[1].namespace_id[1])
          /\ hist[j].post.gl.groups = hist[i].post.gl.groups

\* ---- C21
\* C21 as claimed: no error of the GitLab API leaves create_project_code or
\* create_project_chart: an invocation returns, or ends the process for a
\* duplicate project; in particular an invocation that sent a membership
\* request for a user who is a member of its project returns, and it came
\* to every configured user name.
C21_ApiErrorsCaught ==
    \A i \in 1..Len(hist) :
        hist[i].op \in ProjectOps =>
           /\ hist[i].ret.kind = "raised" =>
                 hist[i].ret.val \notin {"GitlabCreateError", "GitlabError"}
           /\ LET binds == BodiesOf(hist[i], "members.create")
              IN  (\E n, m \in 1..Len(binds) : n < m /\ binds[n].user_id = binds[m].user_id) =>
                     /\ hist[i].ret.kind = "ok"
                     /\ Len(BodiesOf(hist[i], "users.list")) = Len(MemberQueue)

\* ---- C28
\* C28 as claimed: an invocation comes to the membership loops (it looks a
\* user name up) only when it created its project, and the loops never
\* read the project variable while it is not bound.
C28_MembershipOnlyOnCreatedProject ==
    \A i \in 1..Len(hist) :
        hist[i].op \in ProjectOps =>
           /\ Len(BodiesOf(hist[i], "users.list")) > 0 => hist[i].loc.project # None
           /\ hist[i].ret # Raised("UnboundLocalError")

\* ---- C24
\* The subgroups of a parent group with the configured path, as ids.
SubgroupIds(gl, parent_id) ==
    {gl.groups[k].id :
        k \in {n \in 1..Len(gl.groups) :
                  /\ gl.groups[n].parent_id = parent_id
                  /\ gl.groups[n].path = GitlabEnvConf.CI_SUBGROUP_NAME}}

\* _create_subgroup returned in the invocation: its last request is
\* followed by projects.create.
SubgroupReturned(h) == \E k \in 1..Len(h.sent) : h.sent[k].req = "projects.create"

C27_PolicyFailureSwallowed ==
    \A i \in 1..Len(hist) :
        (hist[i].op = "generate_vault_secret" /\ hist[i].loc.policy_error) =>
           LET h == hist[i]
               policy_name == h.args.group_name \o "_" \o h.args.environment_name
                                 \o "_policy"
           IN  /\ h.sent[1].req = "PUT sys/policy"
               /\ h.sent[1].body.name = policy_name
               /\ h.post.vp = h.pre.vp
               /\ Len(h.sent) >= 2
               /\ h.sent[2].req = "GET role-id"
               /\ h.ret # Raised("VaultError") =>
                     /\ h.ret.kind = "ok"
                     /\ RoleOf(h) \in DOMAIN h.post.vr
                     /\ h.post.vr[RoleOf(h)].token_policies = <<policy_name>>
                     /\ CountReq(h, "POST secret-id") = 1
                     /\ CountReq(h, "POST login") = 1
                     /\ Len(h.post.vs) = Len(h.pre.vs) + 1
                     /\ Len(h.post.vt) = Len(h.pre.vt) + 1

\* C27 witness: generate_vault_secret returned its manifest after the
\* policy request had failed, it created the role, and the role is bound to
\* a policy name under which no policy is stored.
C27_Witness ==
    \E i \in 1..Len(hist) :
        /\ hist[i].op = "generate_vault_secret"
        /\ hist[i].loc.policy_error
        /\ hist[i].ret.kind = "ok"
        /\ RoleOf(hist[i]) \notin DOMAIN hist[i].pre.vr
        /\ RoleOf(hist[i]) \in DOMAIN vaultRoles
        /\ \E n \in 1..Len(vaultRoles[RoleOf(hist[i])].token_policies) :
              vaultRoles[RoleOf(hist[i])].token_policies[n] \notin DOMAIN vaultPolicies

\* ---- C25
\* C25 as claimed: whenever the server does not accept the token of a
\* connect call, at auth() or at version(), the call raises
\* RuntimeError and returns no session (a call that fails without reaching
\* the server aside).
C25_AuthFailureIsRuntimeError ==
    \A i \in 1..Len(hist) :
        (/\ hist[i].op = "GitlabAuth.connect"
         /\ ~TokenAccepted(hist[i].post.gl, hist[i].args.token)
         /\ hist[i].ret # Raised("GitlabError")) =>
            hist[i].ret = Raised("RuntimeError")

\* ---- C22
\* The invocations of create_global_variable that listed the project's
\* variables and entered the loop over a non-empty envBranches, on a project
\* without any CI variable: the key of every branch is absent.
EnteredLoop(h) ==
    /\ h.op = "create_global_variable"
    /\ h.loc.existing_variables = Some({})
    /\ h.loc.branch # None

BranchesOf(conf) ==
    {GitlabEnvConf_envBranches(conf)[k] : k \in DOMAIN GitlabEnvConf_envBranches(conf)}

EnvsOf(branch) ==
    {vault_secret_environments(branch)[k] : k \in DOMAIN vault_secret_environments(branch)}

\* C22 as claimed: when create_global_variable has gone through the
\* branches of a project on which no variable key is present, Backend-B was
\* asked for the group (its policy is stored), and Backend-A holds the
\* group's role of an environment exactly when a branch of that
\* environment's set is in envBranches; without branches no backend is
\* touched.
C22_BackendsInvokedPerBranch ==
    \A i \in 1..Len(hist) :
        LET h == hist[i]
            group == GitlabEnvConf.CI_SUBGROUP_NAME[1]
        IN  /\ EnteredLoop(h) =>
                /\ PoliciesNamed(h.post.cp, group) # {}
                /\ \A env \in {"dev", "prod"} :
                      (group \o "_" \o env \o "_role" \in DOMAIN h.post.vr)
                         <=> (\E b \in BranchesOf(GitlabEnvConf) : env \in EnvsOf(b))
            /\ (h.op = "create_global_variable" /\ h.ret = Ok(None)) =>
                  /\ h.post = h.pre
                  /\ BranchesOf(GitlabEnvConf) = {}

\* ---- C23
\* C23 as claimed: when create_global_variable has gone through the
\* branches of a project on which no variable key is present, the store
\* holds, for every branch, the path devops_kv/<branch>/kubernetes/namespace
\* with a value under the namespace's key with underscores for hyphens, and
\* the method sent one write per branch.
C23_BlobWrittenPerBranch ==
    \A i \in 1..Len(hist) :
        LET h == hist[i]
            key == convert_key_format(GitlabEnvConf.CD_HELM_NAMESPACE[1])
        IN  EnteredLoop(h) =>
                /\ \A b \in BranchesOf(GitlabEnvConf) :
                      LET path == KVPath("devops_kv", b \o "/kubernetes/namespace")
                      IN  /\ path \in DOMAIN h.post.kv
                          /\ key \in DOMAIN h.post.kv[path]
                /\ CountReq(h, "PUT secret") = Len(GitlabEnvConf_envBranches(GitlabEnvConf))

\* ---- C29
\* C29 as claimed: after create_global_variable has gone through the
\* branches of a project on which no variable key is present, Backend-B
\* holds exactly one policy and one token for the group (the one secret
\* every branch received), and Backend-A holds roles and policies of
\* different names for the dev and the prod environment when envBranches
\* has branches of both.
C29_OneConsulIdentityPerGroup ==
    \A i \in 1..Len(hist) :
        LET h == hist[i]
            group == GitlabEnvConf.CI_SUBGROUP_NAME[1]
            envs == UNION {EnvsOf(b) : b \in BranchesOf(GitlabEnvConf)}
        IN  EnteredLoop(h) =>
                /\ Cardinality(PoliciesNamed(h.post.cp, group)) = 1
                /\ Len(h.post.ct) = 1
                /\ Cardinality({r \in DOMAIN h.post.vr :
                                   \E env \in envs : r = group \o "_" \o env \o "_role"})
                      = Cardinality(envs)
                /\ Cardinality({q \in DOMAIN h.post.vp :
                                   \E env \in envs : q = group \o "_" \o env \o "_policy"})
                      = Cardinality(envs)

\* ---- C26
PushOps == {"push_to_code", "push_to_chart", "push_to_devops_project_provisioning"}
PushSteps == <<"checkout", "configure", "add", "commit", "push">>

\* The steps a push method took for a branch, in the order it took them.
StepsFor(h, branch) ==
    LET reqs == SelectSeq(h.sent, LAMBDA r : r.body = branch)
    IN  [k \in 1..Len(reqs) |-> reqs[k].req]

IsPrefix(s, t) == Len(s) <= Len(t) /\ \A k \in 1..Len(s) : s[k] = t[k]

FailedAt(h, branch) == {k \in 1..Len(h.loc.failed) : h.loc.failed[k].branch = branch}

\* C26: in every invocation of a push method the steps of each branch are
\* a beginning of checkout, configure, add, commit, push; a branch whose
\* git command failed has that failure logged once, the failed command is
\* its last step (so no push follows a failed commit), and the checkout of
\* the next branch of the list was issued; a branch whose steps stop before
\* the push in a method that returned has a logged failure.
C26_PushOrderPerBranch ==
    \A i \in 1..Len(hist) :
        hist[i].op \in PushOps =>
            LET h == hist[i]
                bs == PushBranches(h.loc.kind)
            IN  \A k \in 1..Len(bs) :
                    LET steps == StepsFor(h, bs[k])
                        failed == FailedAt(h, bs[k])
                    IN  /\ IsPrefix(steps, PushSteps)
                        /\ Cardinality(failed) <= 1
                        /\ \A f \in failed :
                              /\ steps # <<>>
                              /\ steps[Len(steps)] = h.loc.failed[f].command
                              /\ k < Len(bs) => StepsFor(h, bs[k + 1]) # <<>>
                        /\ (h.ret.kind = "ok" /\ Len(steps) < Len(PushSteps)) =>
                              failed # {}
                        /\ (h.ret.kind = "ok") => steps # <<>>

\* C26 witness: a push method whose commit failed on the first branch
\* of its list, without a push for it, and which went on to check out,
\* commit and push the second branch, whose remote head now has the
\* configured files.
C26_Witness ==
    \E i \in 1..Len(hist) :
        LET h == hist[i]
            bs == PushBranches(h.loc.kind)
        IN  /\ h.op \in PushOps
            /\ Len(bs) = 2
            /\ [branch |-> bs[1], command |-> "commit"] \in
                  {h.loc.failed[k] : k \in 1..Len(h.loc.failed)}
            /\ StepsFor(h, bs[1]) = <<"checkout", "configure", "add", "commit">>
            /\ StepsFor(h, bs[2]) = PushSteps
            /\ h.pre.git[h.loc.kind].remote[bs[2]] = "template"
            /\ h.post.git[h.loc.kind].remote[bs[2]] = "configured"

\* ---- C30
\* C30 as claimed: for every branch that push_to_devops_project_provisioning
\* renders an Application for, the Application's env is the one environment
\* for which create_global_variable's branch test asks Backend-A for a
\* secret.
C30_ClassifiersAgree ==
    \A i \in 1..Len(hist) :
        hist[i].op = "push_to_devops_project_provisioning" =>
            \A k \in 1..Len(hist[i].loc.applications) :
                LET a == hist[i].loc.applications[k]
                IN  vault_secret_environments(a.branch) = <<a.env>>
====
